---- MODULE Spec2Model ----
(***************************************************************************)
(* Agentic-Code-Reviewer: the review pipeline of src/src/agent.py          *)
(* (CodeReviewAgent: ingest_code -> run_analyses -> synthesize_feedback,   *)
(* with the handle_error branch) and its three callers: a direct           *)
(* review_code call, the /analyze handler of src/flask_backend.py and the  *)
(* per-file loop of src/src/repo_analyzer.py.                              *)
(*                                                                         *)
(* Texts are sequences of atoms.  An atom is one character ("x", "<", " ") *)
(* or one literal chunk of the program's output that the program never     *)
(* looks into ("No code provided").  Python dicts are modelled with their  *)
(* insertion order where the program iterates over them (analysis_results: *)
(* a sequence of [k, v] pairs) and as TLA+ records otherwise.              *)
(***************************************************************************)
EXTENDS Integers, Sequences, FiniteSets, TLC

\* ------------------------------------------------------------------ bounds
\* Surrounding whitespace characters of an input code text: 0..MaxWs.
MaxWs == 1
\* Extra UTF-8 bytes of an input code text over its character count: 0..MaxExtra.
MaxExtra == 1
\* Files under the root of an extracted archive, in walk order: 0..MaxFiles.
MaxFiles == 2
\* Atoms of a text handed to _clean_llm_response on its own: 0..MaxText.
MaxText == 6
\* Analyzer keys of an analysis_results handed to _fallback_synthesis on its
\* own: 0..MaxKeys.
MaxKeys == 2
\* Calls of _fallback_synthesis on one analysis_results.
MaxCalls == 2
MaxResponse == 4
MaxEntries == 2
MaxSegments == 6

\* --------------------------------------------------------------- constants
\* config.max_file_size_mb (its default).
MaxFileSizeMb == 10
\* max_size_bytes = config.max_file_size_mb * 1024 * 1024
max_size_bytes == MaxFileSizeMb * 1024 * 1024
\* getattr(config, "max_files_per_repo", 20): config has no such attribute.
DefaultMaxFiles == 20

\* --------------------------------------------------------- Python helpers
\* Optional[str]: None, or a text.
None == [some |-> FALSE, val |-> <<>>]
Some(t) == [some |-> TRUE, val |-> t]
\* Python truthiness of an Optional[str]: None and "" are falsy.
Truthy(o) == o.some /\ o.val # <<>>
\* str(o) as an f-string renders it.
FormatOpt(o) == IF o.some THEN o.val ELSE <<"None">>

\* str.isspace of one atom.
IsSpace(ch) == ch \in {" ", "\n", "\t"}

RECURSIVE LStrip(_)
LStrip(s) == IF s # <<>> /\ IsSpace(Head(s)) THEN LStrip(Tail(s)) ELSE s

RECURSIVE RStrip(_)
RStrip(s) ==
    IF s # <<>> /\ IsSpace(s[Len(s)]) THEN RStrip(SubSeq(s, 1, Len(s) - 1)) ELSE s

\* str.strip()
Strip(s) == RStrip(LStrip(s))

\* str.replace(old, new): left to right, non-overlapping occurrences.
RECURSIVE Replace(_, _, _)
Replace(s, old, new) ==
    IF Len(s) < Len(old) THEN s
    ELSE IF SubSeq(s, 1, Len(old)) = old
         THEN new \o Replace(SubSeq(s, Len(old) + 1, Len(s)), old, new)
         ELSE <<Head(s)>> \o Replace(Tail(s), old, new)

\* "\n".join(lines), lines a sequence of texts.
RECURSIVE JoinLines(_)
JoinLines(lines) ==
    IF lines = <<>> THEN <<>>
    ELSE IF Len(lines) = 1 THEN lines[1]
    ELSE lines[1] \o <<"\n">> \o JoinLines(Tail(lines))

\* str.lower() of a file extension.
Lower(ext) ==
    CASE ext = "PY" -> "py"
      [] OTHER -> ext

\* str.title() of an analyzer name.
Title(name) ==
    CASE name = "security" -> "Security"
      [] name = "maintainability" -> "Maintainability"
      [] name = "style" -> "Style"
      [] OTHER -> name

\* ------------------------------------------------------------- code texts
\* A code text is kept by what the program measures of it: ws surrounding
\* whitespace characters (what str.strip() removes), chars further characters,
\* extra UTF-8 bytes beyond one per character, and enc: whether
\* str.encode('utf-8') succeeds (a lone surrogate makes it raise).
\* The texts the callers are given: the empty and the whitespace-only ones,
\* those around the size limit, and one that cannot be encoded.
CodeChars == {0, max_size_bytes}

CodeValues ==
    {c \in [ws : 0..MaxWs, chars : CodeChars, extra : 0..MaxExtra, enc : BOOLEAN] :
        /\ c.extra <= 3 * c.chars
        /\ (~c.enc => c.chars >= 1 /\ c.ws = 0 /\ c.extra = 0)}

\* len(code)
CodeLen(c) == c.ws + c.chars
\* len(code.encode('utf-8')), defined when c.enc
CodeBytes(c) == c.ws + c.chars + c.extra
\* code.strip()
CodeStrip(c) == [c EXCEPT !.ws = 0]
\* The empty text "".
EmptyCode == [ws |-> 0, chars |-> 0, extra |-> 0, enc |-> TRUE]

\* ------------------------------------------------ ordered dicts (agent.py)
\* A dict the program iterates over: a sequence of [k, v] items in insertion
\* order, keys distinct.
Keys(d) == {d[i].k : i \in DOMAIN d}
Get(d, key) == d[CHOOSE i \in DOMAIN d : d[i].k = key].v

\* d[key] = value: an existing key keeps its place, a new key goes last.
DictSet(d, key, value) ==
    IF key \in Keys(d)
    THEN [i \in DOMAIN d |-> IF d[i].k = key THEN [k |-> key, v |-> value] ELSE d[i]]
    ELSE Append(d, [k |-> key, v |-> value])

\* for k, v in b.items(): a[k] = v
RECURSIVE DictUpdate(_, _)
DictUpdate(a, b) ==
    IF b = <<>> THEN a ELSE DictUpdate(DictSet(a, Head(b).k, Head(b).v), Tail(b))

\* operator.or_ on two dicts (the reducer of analysis_results): a | b
DictOr(a, b) == DictUpdate(a, b)

\* A dict display {**first, **second} over string keys: a later entry replaces
\* an earlier one with the same key.
DictDisplay(first, second) == second @@ first

\* ------------------------------------------------------- CodeReviewState
StateKeys ==
    {"code", "file_extension", "language", "analysis_results", "feedback",
     "error", "metadata"}

\* initial_state of review_code
initial_state(code, file_extension) ==
    [code |-> code, file_extension |-> file_extension, language |-> <<>>,
     analysis_results |-> <<>>, feedback |-> <<>>, error |-> None,
     metadata |-> <<>>]

\* The graph engine's state update for a node's returned dict: a key of the
\* state schema is replaced by the returned value, analysis_results goes
\* through its reducer (operator.or_), a key outside the schema ("status") is
\* dropped.
ApplyUpdate(state, update) ==
    [key \in StateKeys |->
        IF key \in DOMAIN update
        THEN IF key = "analysis_results"
             THEN DictOr(state[key], update[key])
             ELSE update[key]
        ELSE state[key]]

\* ---------------------------------------------------------- ingest stage
language_map ==
    [py |-> "python", js |-> "javascript", ts |-> "typescript",
     java |-> "java", go |-> "go"]

\* _detect_language: language_map.get(file_extension.lower())
detect_language(file_extension) ==
    IF Lower(file_extension) \in DOMAIN language_map
    THEN Some(<<language_map[Lower(file_extension)]>>)
    ELSE None

\* _ingest_code writing the lower-cased extension back into the state.
ingest_code_normalizing(state) ==
    IF CodeLen(state.code) = 0
    THEN DictDisplay([error |-> Some(<<"No code provided">>)], state)
    ELSE LET file_extension == Lower(state.file_extension)
             language == detect_language(file_extension)
         IN  IF ~Truthy(language)
             THEN DictDisplay(
                     [error |-> Some(<<"Unsupported file type: ", file_extension>>)],
                     state)
             ELSE IF CodeBytes(state.code) > max_size_bytes
             THEN DictDisplay(
                     [error |-> Some(<<"File size exceeds the maximum limit of ",
                                       ToString(MaxFileSizeMb), "MB">>)],
                     state)
             ELSE [language |-> language.val,
                   file_extension |-> file_extension,
                   analysis_results |-> <<>>,
                   metadata |-> [file_extension |-> file_extension,
                                 code_length |-> CodeLen(state.code),
                                 file_size_bytes |-> CodeBytes(state.code)]]

\* _ingest_code, the dict it returns.  A failed check returns
\* {"error": <message>, **state}: state carries its own "error" key (None, from
\* initial_state), which comes later in the display.
ingest_code(state) ==
    IF CodeLen(state.code) = 0
    THEN DictDisplay([error |-> Some(<<"No code provided">>)], state)
    ELSE LET file_extension == Lower(state.file_extension)
             language == detect_language(file_extension)
         IN  IF ~Truthy(language)
             THEN DictDisplay(
                     [error |-> Some(<<"Unsupported file type: ", file_extension>>)],
                     state)
             ELSE IF CodeBytes(state.code) > max_size_bytes
             THEN DictDisplay(
                     [error |-> Some(<<"File size exceeds the maximum limit of ",
                                       ToString(MaxFileSizeMb), "MB">>)],
                     state)
             ELSE [language |-> language.val,
                   analysis_results |-> <<>>,
                   metadata |-> [file_extension |-> file_extension,
                                 code_length |-> CodeLen(state.code),
                                 file_size_bytes |-> CodeBytes(state.code)]]

\* _ingest_code raises: state["code"].encode('utf-8') on a text that cannot be
\* encoded, reached after the empty and the extension checks.
ingest_code_raises(state) ==
    /\ CodeLen(state.code) # 0
    /\ Truthy(detect_language(Lower(state.file_extension)))
    /\ ~state.code.enc

\* Mutant: the "ok" edge of ingest_code leads to END.
route_from_ingest_ok_to_end(state) ==
    IF Truthy(state.error) THEN "handle_error" ELSE "END"

\* _route_from_ingest and the conditional edges of _build_workflow
route_from_ingest(state) ==
    IF Truthy(state.error) THEN "handle_error" ELSE "run_analyses"

\* _handle_error, the dict it returns
handle_error(state) ==
    [feedback |-> <<"Error: ">> \o FormatOpt(state.error), status |-> "error"]

\* ------------------------------------------------------- analysis stage
\* The tasks of _run_analyses in the order they are appended.
analyzer_names == <<"security", "maintainability", "style">>
AnalyzerSet == {analyzer_names[i] : i \in DOMAIN analyzer_names}

\* What one backend call (self.llm.ainvoke) ends with: ok and the response
\* content, or an exception and its message.
Responded(text) == [ok |-> TRUE, text |-> text]
Failed(message) == [ok |-> FALSE, text |-> message]

AnalysisOutcomes ==
    {Responded(<<" ">>), Responded(<<" ", "x">>), Failed(<<"timeout">>)}

SynthesisOutcomes ==
    {Responded(<<"<", "s", ">", " ">>), Responded(<<"<", "s", ">", "x">>),
     Failed(<<"timeout">>)}

\* _parse_analysis_response with the response as it came for description.
parse_analysis_response_passed(response, analysis_type) ==
    IF response = <<>> \/ Strip(response) = <<>>
    THEN [issues |-> <<>>,
          summary |-> <<"No ", analysis_type, " issues detected">>,
          passed |-> TRUE]
    ELSE [issues |-> <<[title |-> <<Title(analysis_type), " Analysis">>,
                        description |-> response,
                        severity |-> "medium"]>>,
          summary |-> <<analysis_type, " analysis completed">>,
          passed |-> (Len(Strip(response)) = 0)]

\* _parse_analysis_response
parse_analysis_response(response, analysis_type) ==
    IF response = <<>> \/ Strip(response) = <<>>
    THEN [issues |-> <<>>,
          summary |-> <<"No ", analysis_type, " issues detected">>,
          passed |-> TRUE]
    ELSE [issues |-> <<[title |-> <<Title(analysis_type), " Analysis">>,
                        description |-> Strip(response),
                        severity |-> "medium"]>>,
          summary |-> <<analysis_type, " analysis completed">>,
          passed |-> (Len(Strip(response)) = 0)]

\* Mutant: a failed backend call writes no key.
analyze_code_failure_writes_nothing(analysis_type, outcome) ==
    IF outcome.ok
    THEN [analysis_results |->
            <<[k |-> analysis_type,
               v |-> parse_analysis_response(outcome.text, analysis_type)]>>]
    ELSE [analysis_results |-> <<>>]

\* Mutant: a failed backend call is reported like an ordinary finding.
analyze_code_failure_as_finding(analysis_type, outcome) ==
    [analysis_results |->
        <<[k |-> analysis_type,
           v |-> [issues |-> <<[title |-> <<Title(analysis_type), " Analysis">>,
                               description |-> outcome.text,
                               severity |-> "medium"]>>,
                  summary |-> <<analysis_type, " analysis completed">>,
                  passed |-> FALSE]]>>]

\* _analyze_code from the end of the backend call on: the delta it returns for
\* a response, and the synthetic result of its except branch for a failure.
analyze_code(analysis_type, outcome) ==
    IF outcome.ok
    THEN [analysis_results |->
            <<[k |-> analysis_type,
               v |-> parse_analysis_response(outcome.text, analysis_type)]>>]
    ELSE [analysis_results |->
            <<[k |-> analysis_type,
               v |-> [issues |-> <<[error |-> outcome.text, severity |-> "high"]>>,
                      summary |-> <<analysis_type, " analysis failed">>,
                      passed |-> FALSE]]>>]

\* The early return of an analyzer whose enabled flag is off:
\* _security_analysis returns {}, the other two return state.
analysis_disabled(analysis_type, state) ==
    IF analysis_type = "security" THEN <<>> ELSE state

\* tasks of _run_analyses: one per enabled analyzer
scheduled_tasks(enabled_flags) ==
    [a \in AnalyzerSet |-> IF a \in enabled_flags THEN "pending" ELSE "none"]

\* Mutant: the wait ends with the first task that is done.
gather_done_on_first(tasks) ==
    \/ \E a \in AnalyzerSet : tasks[a] = "done"
    \/ \A a \in AnalyzerSet : tasks[a] = "none"

\* asyncio.gather is done when every awaitable it was given is done.
gather_done(tasks) == \A a \in AnalyzerSet : tasks[a] \in {"none", "done"}

\* Mutant: the results are collected as the tasks complete.
gather_results_as_completed(i, tasks, returned, completed) ==
    [j \in 1..Len(completed) |-> returned[completed[j]]]

\* asyncio.gather(*tasks): the results in the order of the awaitables, whatever
\* the order in which they completed.
RECURSIVE gather_results(_, _, _, _)
gather_results(i, tasks, returned, completed) ==
    IF i > Len(analyzer_names) THEN <<>>
    ELSE (IF tasks[analyzer_names[i]] = "none"
          THEN <<>>
          ELSE <<returned[analyzer_names[i]]>>)
         \o gather_results(i + 1, tasks, returned, completed)

\* part.get("analysis_results", {})
part_analysis_results(part) ==
    IF "analysis_results" \in DOMAIN part THEN part.analysis_results ELSE <<>>

\* The merge loop of _run_analyses over the gathered results.
RECURSIVE combine(_, _)
combine(results, combined) ==
    IF results = <<>> THEN combined
    ELSE combine(Tail(results),
                 DictUpdate(combined, part_analysis_results(Head(results))))

\* ------------------------------------------------------ synthesis stage
\* The two text functions of the stage, called on their own.
VARIABLES
    text,          \* the text handed to _clean_llm_response
    cleaned,       \* what _clean_llm_response returned: for text, then for that
    fb_arg,        \* the analysis_results handed to _fallback_synthesis
    fb_calls,      \* what the calls of _fallback_synthesis on fb_arg returned
    parse_in,      \* the arguments of a call of _parse_analysis_response
    parse_out,     \* what that call returned
    report_in,     \* the analysis handed to build_markdown_report
    report_out,    \* the lines of the report that call built
    locator_in,    \* the URL handed to _parse_github_repo
    locator_out    \* what that call returned, or the ValueError it raised

clean_vars == <<text, cleaned>>
fallback_vars == <<fb_arg, fb_calls>>
parse_vars == <<parse_in, parse_out>>
report_vars == <<report_in, report_out>>
locator_vars == <<locator_in, locator_out>>
pure_vars == <<clean_vars, fallback_vars, parse_vars, report_vars, locator_vars>>

\* The atom "BT" is one backtick character.
\* _clean_llm_response
clean_llm_response(content) ==
    IF content = <<>> THEN <<>>
    ELSE LET c1 == Replace(content, <<"<", "s", ">">>, <<>>)
             c2 == Replace(c1, <<"<", "/", "s", ">">>, <<>>)
             c3 == Replace(c2, <<"[", "O", "U", "T", "]">>, <<>>)
             c4 == Replace(c3, <<"[", "/", "O", "U", "T", "]">>, <<>>)
             c5 == Replace(c4, <<"BT", " ", "BT", "BT">>, <<"BT", "BT", "BT">>)
             c6 == Replace(c5, <<"BT", " ", " ", "BT", "BT">>, <<"BT", "BT", "BT">>)
         IN  Strip(c6)

\* str.upper() of a severity
Upper(sev) ==
    CASE sev = "high" -> "HIGH"
      [] sev = "medium" -> "MEDIUM"
      [] sev = "low" -> "LOW"
      [] OTHER -> sev

\* The lines _fallback_synthesis appends for issue number i of a category.
fallback_issue_lines(category, i, issue) ==
    LET title == IF "title" \in DOMAIN issue
                 THEN issue.title
                 ELSE <<Title(category), " Issue ", ToString(i)>>
        raw ==   IF "description" \in DOMAIN issue /\ issue.description # <<>>
                 THEN issue.description
                 ELSE IF "error" \in DOMAIN issue /\ issue.error # <<>>
                 THEN issue.error
                 ELSE <<"No description available">>
        sev ==   Upper(IF "severity" \in DOMAIN issue THEN issue.severity ELSE "medium")
        severity_icon ==
                 CASE sev = "HIGH" -> "(red)"
                   [] sev = "MEDIUM" -> "(orange)"
                   [] sev = "LOW" -> "(blue)"
                   [] OTHER -> "(white)"
        desc ==  clean_llm_response(raw)
    IN  << <<"\n### ", severity_icon, " ">> \o title \o <<" [", sev, "]\n">>,
           desc \o <<"\n">> >>
        \o (IF "code" \in DOMAIN issue
            THEN << <<"\n**Problematic code:**\n[fence]python\n">> \o issue.code
                    \o <<"\n[fence]\n">> >>
            ELSE <<>>)
        \o (IF "suggestion" \in DOMAIN issue
            THEN << <<"\n**Suggested fix:**\n[fence]python\n">> \o issue.suggestion
                    \o <<"\n[fence]\n">> >>
            ELSE <<>>)

RECURSIVE fallback_issues(_, _, _)
fallback_issues(category, issues, i) ==
    IF i > Len(issues) THEN <<>>
    ELSE fallback_issue_lines(category, i, issues[i])
         \o fallback_issues(category, issues, i + 1)

\* The categories with nothing under the header of one that has no issue.
RECURSIVE fallback_categories_bare(_, _)
fallback_categories_bare(analysis_results, i) ==
    IF i > Len(analysis_results) THEN <<>>
    ELSE LET category == analysis_results[i].k
             result == analysis_results[i].v
         IN  << <<"\n## ", Title(category), " Analysis\n">> >>
             \o fallback_issues(category, result.issues, 1)
             \o fallback_categories_bare(analysis_results, i + 1)

\* The lines _fallback_synthesis appends for the categories from item i on.
RECURSIVE fallback_categories(_, _)
fallback_categories(analysis_results, i) ==
    IF i > Len(analysis_results) THEN <<>>
    ELSE LET category == analysis_results[i].k
             result == analysis_results[i].v
         IN  << <<"\n## ", Title(category), " Analysis\n">> >>
             \o (IF result.issues = <<>>
                 THEN << <<"(check) **No issues found in this category.**\n">> >>
                 ELSE fallback_issues(category, result.issues, 1))
             \o fallback_categories(analysis_results, i + 1)

\* Mutant: the summary carries the number of the calls made before it.
fallback_synthesis_numbered(analysis_results) ==
    IF analysis_results = <<>>
    THEN <<"## Code Review Summary\n\nNo analysis results available. Please ensure the code was analyzed properly.">>
    ELSE JoinLines(<< <<"# Code Review Summary\n", ToString(Len(fb_calls))>> >>
                   \o fallback_categories(analysis_results, 1))

\* _fallback_synthesis
fallback_synthesis(analysis_results) ==
    IF analysis_results = <<>>
    THEN <<"## Code Review Summary\n\nNo analysis results available. Please ensure the code was analyzed properly.">>
    ELSE JoinLines(<< <<"# Code Review Summary\n">> >>
                   \o fallback_categories(analysis_results, 1))

\* The early return of _synthesize_feedback handing the state back untouched.
synthesize_nothing_silent(state) == state

\* _synthesize_feedback without a backend call: analysis_results is empty.
synthesize_nothing(state) ==
    DictDisplay(state, [feedback |-> <<"No analysis results to synthesize">>])

\* Mutant: a blank response is returned as it is.
synthesize_feedback_keeps_blank(state, outcome) ==
    IF outcome.ok
    THEN [feedback |-> clean_llm_response(outcome.text), status |-> "completed"]
    ELSE [feedback |-> fallback_synthesis(state.analysis_results),
          status |-> "completed"]

\* Mutant: the response content is used as the backend sent it, without
\* _clean_llm_response.
synthesize_feedback_unsanitized(state, outcome) ==
    IF outcome.ok
    THEN [feedback |-> IF outcome.text = <<>> \/ Strip(outcome.text) = <<>>
                       THEN fallback_synthesis(state.analysis_results)
                       ELSE outcome.text,
          status |-> "completed"]
    ELSE [feedback |-> fallback_synthesis(state.analysis_results),
          status |-> "completed"]

\* _synthesize_feedback from the end of the backend call on.
synthesize_feedback(state, outcome) ==
    IF outcome.ok
    THEN LET content == clean_llm_response(outcome.text)
         IN  [feedback |-> IF content = <<>> \/ Strip(content) = <<>>
                           THEN fallback_synthesis(state.analysis_results)
                           ELSE content,
              status |-> "completed"]
    ELSE [feedback |-> fallback_synthesis(state.analysis_results),
          status |-> "completed"]

\* ------------------------------------------- repository fetch (repo_analyzer)
\* A repository URL as urlparse gives it: the host (netloc) and the segments of
\* the path between its slashes, an empty segment where two slashes meet or
\* the path ends with one.
RepoUrls ==
    {[host |-> "github.com", path |-> <<"o", "r">>],
     [host |-> "gitlab.com", path |-> <<"o", "r">>],
     [host |-> "github.com", path |-> <<"o">>],
     [host |-> "GitHub.com", path |-> <<"o", "r.git", "">>],
     [host |-> "github.com", path |-> <<"o", "r", "tree", "dev", "sub">>],
     [host |-> "github.com", path |-> <<"o", "r", "tree", "main">>]}

\* parsed.netloc.lower()
LowerHost(host) == IF host = "GitHub.com" THEN "github.com" ELSE host

\* repo[:-4] if repo.endswith('.git')
StripGit(repo) == IF repo = "r.git" THEN "r" ELSE repo

\* "/".join(parts)
RECURSIVE JoinSlash(_)
JoinSlash(parts) ==
    IF parts = <<>> THEN <<>>
    ELSE IF Len(parts) = 1 THEN <<parts[1]>>
    ELSE <<parts[1], "/">> \o JoinSlash(Tail(parts))

\* [p for p in parsed.path.split("/") if p]
RECURSIVE NonEmptyParts(_)
NonEmptyParts(path) ==
    IF path = <<>> THEN <<>>
    ELSE (IF Head(path) = "" THEN <<>> ELSE <<Head(path)>>)
         \o NonEmptyParts(Tail(path))

\* A raise of one of the fetch functions, and a return.
FetchRaise(message) ==
    [ok |-> FALSE, error |-> message, owner |-> "", repo |-> "",
     branch |-> None, subpath |-> None]

\* _parse_github_repo with the subpath taken after four segments whatever the
\* third one is.
parse_github_repo_any_subpath(repo_url) ==
    LET parts == NonEmptyParts(repo_url.path)
    IN  IF LowerHost(repo_url.host) # "github.com"
        THEN FetchRaise(<<"Only github.com URLs are supported">>)
        ELSE IF Len(parts) < 2
        THEN FetchRaise(<<"Invalid GitHub repository URL. Expected format: https://github.com/<owner>/<repo>">>)
        ELSE LET tree == Len(parts) >= 4 /\ parts[3] = "tree"
             IN  [ok |-> TRUE, error |-> <<>>,
                  owner |-> parts[1],
                  repo |-> StripGit(parts[2]),
                  branch |-> IF tree THEN Some(<<parts[4]>>) ELSE None,
                  subpath |-> IF Len(parts) > 4
                              THEN Some(JoinSlash(SubSeq(parts, 5, Len(parts))))
                              ELSE None]

\* _parse_github_repo
parse_github_repo(repo_url) ==
    LET parts == NonEmptyParts(repo_url.path)
    IN  IF LowerHost(repo_url.host) # "github.com"
        THEN FetchRaise(<<"Only github.com URLs are supported">>)
        ELSE IF Len(parts) < 2
        THEN FetchRaise(<<"Invalid GitHub repository URL. Expected format: https://github.com/<owner>/<repo>">>)
        ELSE LET tree == Len(parts) >= 4 /\ parts[3] = "tree"
             IN  [ok |-> TRUE, error |-> <<>>,
                  owner |-> parts[1],
                  repo |-> StripGit(parts[2]),
                  branch |-> IF tree THEN Some(<<parts[4]>>) ELSE None,
                  subpath |-> IF tree /\ Len(parts) > 4
                              THEN Some(JoinSlash(SubSeq(parts, 5, Len(parts))))
                              ELSE None]

\* a or b on two Optional[str]
OrElse(a, b) == IF Truthy(a) THEN a ELSE b

\* Mutant: the default branches are appended whether or not they are in the
\* list already.
download_branches_with_repeats(preferred_branch) ==
    (IF Truthy(preferred_branch) THEN <<preferred_branch.val>> ELSE <<>>)
    \o << <<"main">>, <<"master">> >>

\* _download_repo_zip: the list branches
download_branches(preferred_branch) ==
    LET first == IF Truthy(preferred_branch) THEN <<preferred_branch.val>> ELSE <<>>
        main == IF \E i \in DOMAIN first : first[i] = <<"main">>
                THEN first ELSE Append(first, <<"main">>)
    IN  IF \E i \in DOMAIN main : main[i] = <<"master">>
        THEN main ELSE Append(main, <<"master">>)

\* What one urlopen(req, timeout=30) of _download_repo_zip ends with: a
\* response and its status, or an exception and its text (urllib raises
\* HTTPError for a status outside 2xx, URLError or a timeout otherwise).
Response(status) == [kind |-> "response", status |-> status, text |-> <<>>]
Raised(message) == [kind |-> "raise", status |-> 0, text |-> message]
FetchOutcomes ==
    {Response(200), Response(204),
     Raised(<<"HTTP Error 404: Not Found">>), Raised(<<"<urlopen error timed out>">>)}

\* _download_repo_zip: the ValueError after the loop
download_error(owner, repo, last_err) ==
    <<"Failed to download repository zip for ", owner, "/", repo,
      ". Last error: ">> \o FormatOpt(last_err)

\* The directories of the extracted archive's root.
ArchiveDirs == {{}, {<<"sub">>, <<"lib">>}}

\* Mutant: a subdirectory that is not in the archive is taken as the root all
\* the same.
subdir_missing_ignored(subdir, dirs) == FALSE

\* analyze_repository: if subdir: ... if not os.path.isdir(candidate)
subdir_missing(subdir, dirs) == Truthy(subdir) /\ subdir.val \notin dirs

\* ------------------------------------------------------------ the state
VARIABLES
    enabled,       \* config.analyses[a].enabled: the set of analyzers switched on
    caller,        \* who called: "none", "direct", "flask", "repo", and "*_done"
    args,          \* the arguments of the review_code call in progress
    pc,            \* where that call is: a node of the workflow, or a wait
    state,         \* the CodeReviewState of the workflow
    visited,       \* the nodes the workflow has executed, in order
    tasks,         \* per analyzer: "none", "pending", "awaiting", "done"
    returned,      \* per analyzer: what its task returned
    outcomes,      \* per analyzer: what its backend call ended with
    completed,     \* the analyzers in the order their tasks completed
    llm_calls,     \* the backend calls made in this run: analyzer names, "synthesis"
    synth_outcome, \* what the synthesizer's backend call ended with
    exc,           \* the message of the exception that left the workflow
    ret,           \* what review_code returned
    http,          \* the response of the /analyze handler
    files,         \* the batch loop: the selected files
    fidx,          \* the batch loop: index of the file in hand
    file_results,  \* the batch loop: file_results
    file_read,     \* the batch loop: what reading the file in hand gave
    repo_ret,      \* what analyze_repository returned
    request,       \* the arguments of the analyze_repository call, up to the loop
    repo_pc,       \* where that call is: "none", "download", "downloaded",
                   \* "extracted", "loop", "returned", "raised"
    dl,            \* _download_repo_zip: its arguments and locals
    tried,         \* _download_repo_zip: the attempts made, in order
    archive_dirs,  \* the directories of the extracted archive's root
    walk,          \* the files os.walk(root) lists, in its order
    workspace,     \* the temporary directory of the call: "none", "exists"
    repo_exc,      \* the message of the exception that left analyze_repository
    fetched        \* the branch of the attempt that returned the archive

vars ==
    <<enabled, caller, args, pc, state, visited, tasks, returned, outcomes,
      completed, llm_calls, synth_outcome, exc, ret, http, files, fidx,
      file_results, file_read, repo_ret, request, repo_pc, dl, tried,
      archive_dirs, walk, workspace, repo_exc, fetched, text, cleaned, fb_arg,
      fb_calls,
      parse_in, parse_out, report_in, report_out, locator_in, locator_out>>

run_vars ==
    <<args, pc, state, visited, tasks, returned, outcomes, completed, llm_calls,
      synth_outcome, exc, ret>>
repo_vars == <<files, fidx, file_results, file_read, repo_ret>>
fetch_vars ==
    <<request, repo_pc, dl, tried, archive_dirs, walk, workspace, repo_exc,
      fetched>>

\* Inputs of the callers.
Extensions == {"PY", "exe", ""}
FileSuffixes == {".py", ".ipynb", ""}

NoTasks == [a \in AnalyzerSet |-> "none"]
Nothing == [a \in AnalyzerSet |-> <<>>]

\* No review_code call in progress: nothing of a run is kept.
NoRun ==
    /\ args = <<>>
    /\ pc = "idle"
    /\ state = <<>>
    /\ visited = <<>>
    /\ tasks = NoTasks
    /\ returned = Nothing
    /\ outcomes = Nothing
    /\ completed = <<>>
    /\ llm_calls = {}
    /\ synth_outcome = <<>>
    /\ exc = <<>>
    /\ ret = <<>>

\* Nobody has called anything yet.
NoCall ==
    /\ caller = "none"
    /\ NoRun
    /\ http = <<>>
    /\ files = <<>>
    /\ fidx = 0
    /\ file_results = <<>>
    /\ file_read = <<>>
    /\ repo_ret = <<>>
    /\ request = <<>>
    /\ walk = <<>>
    /\ repo_pc = "none"
    /\ dl = <<>>
    /\ tried = <<>>
    /\ archive_dirs = {}
    /\ workspace = "none"
    /\ repo_exc = None
    /\ fetched = <<>>

\* The text functions are not called on their own.
NoClean == text = <<>> /\ cleaned = <<>>
NoFallback == fb_arg = <<>> /\ fb_calls = <<>>
NoParse == parse_in = <<>> /\ parse_out = <<>>
NoReport == report_in = <<>> /\ report_out = <<>>
NoLocator == locator_in = <<>> /\ locator_out = <<>>
NoPure == NoClean /\ NoFallback /\ NoParse /\ NoReport /\ NoLocator

Init ==
    /\ enabled \in SUBSET AnalyzerSet
    /\ NoCall
    /\ NoPure

\* review_code up to self.workflow.ainvoke(initial_state): the entry point is
\* ingest_code.
StartRun(code, file_extension) ==
    /\ args' = [code |-> code, file_extension |-> file_extension]
    /\ state' = initial_state(code, file_extension)
    /\ pc' = "ingest_code"
    /\ visited' = <<>>
    /\ tasks' = NoTasks
    /\ returned' = Nothing
    /\ outcomes' = Nothing
    /\ completed' = <<>>
    /\ llm_calls' = {}
    /\ synth_outcome' = <<>>
    /\ exc' = <<>>
    /\ ret' = <<>>

\* ------------------------------------------------------------ the workflow
\* The nodes that run to their return without a backend call.
PlainNodes == {"ingest_code", "handle_error"}

node_raises(node, st) == node = "ingest_code" /\ ingest_code_raises(st)

node_return(node, st) ==
    IF node = "ingest_code" THEN ingest_code(st) ELSE handle_error(st)

\* The edges of _build_workflow out of a plain node: the conditional edges of
\* ingest_code, and handle_error -> END.
next_node(node, st) ==
    IF node = "ingest_code" THEN route_from_ingest(st) ELSE "END"

\* One step of the graph engine on ingest_code or handle_error: run the node,
\* apply the dict it returns, follow its edge.
NodeStep ==
    /\ pc \in PlainNodes
    /\ ~node_raises(pc, state)
    /\ state' = ApplyUpdate(state, node_return(pc, state))
    /\ pc' = next_node(pc, state')
    /\ visited' = Append(visited, pc)
    /\ UNCHANGED <<enabled, caller, args, tasks, returned, outcomes, completed,
                   llm_calls, synth_outcome, exc, ret, http>>
    /\ UNCHANGED <<repo_vars, fetch_vars, pure_vars>>

\* The node raises: the exception leaves workflow.ainvoke.
NodeRaise ==
    /\ pc \in PlainNodes
    /\ node_raises(pc, state)
    /\ pc' = "raised"
    /\ exc' = <<"'utf-8' codec can't encode character: surrogates not allowed">>
    /\ visited' = Append(visited, pc)
    /\ UNCHANGED <<enabled, caller, args, state, tasks, returned, outcomes,
                   completed, llm_calls, synth_outcome, ret, http>>
    /\ UNCHANGED <<repo_vars, fetch_vars, pure_vars>>

\* _run_analyses up to asyncio.gather: one task per enabled analyzer.
RunAnalyses ==
    /\ pc = "run_analyses"
    /\ tasks' = scheduled_tasks(enabled)
    /\ pc' = "gather"
    /\ visited' = Append(visited, pc)
    /\ UNCHANGED <<enabled, caller, args, state, returned, outcomes, completed,
                   llm_calls, synth_outcome, exc, ret, http>>
    /\ UNCHANGED <<repo_vars, fetch_vars, pure_vars>>

\* A task runs _security_analysis / _maintainability_analysis /
\* _style_analysis up to the await of its backend call in _analyze_code.
TaskStart(a) ==
    /\ pc = "gather"
    /\ tasks[a] = "pending"
    /\ IF a \in enabled
       THEN /\ tasks' = [tasks EXCEPT ![a] = "awaiting"]
            /\ llm_calls' = llm_calls \cup {a}
            /\ UNCHANGED returned
       ELSE /\ tasks' = [tasks EXCEPT ![a] = "done"]
            /\ returned' = [returned EXCEPT ![a] = analysis_disabled(a, state)]
            /\ UNCHANGED llm_calls
    /\ UNCHANGED <<enabled, caller, args, pc, state, visited, outcomes, completed,
                   synth_outcome, exc, ret, http>>
    /\ UNCHANGED <<repo_vars, fetch_vars, pure_vars>>

\* The backend call of a task ends; _analyze_code returns.
TaskFinish(a, outcome) ==
    /\ pc = "gather"
    /\ tasks[a] = "awaiting"
    /\ tasks' = [tasks EXCEPT ![a] = "done"]
    /\ returned' = [returned EXCEPT ![a] = analyze_code(a, outcome)]
    /\ outcomes' = [outcomes EXCEPT ![a] = outcome]
    /\ completed' = Append(completed, a)
    /\ UNCHANGED <<enabled, caller, args, pc, state, visited, llm_calls,
                   synth_outcome, exc, ret, http>>
    /\ UNCHANGED <<repo_vars, fetch_vars, pure_vars>>

\* asyncio.gather returns; _run_analyses merges and returns; the edge
\* run_analyses -> synthesize_feedback.
GatherDone ==
    /\ pc = "gather"
    /\ gather_done(tasks)
    /\ LET results == gather_results(1, tasks, returned, completed)
           combined == combine(results, <<>>)
       IN  state' = ApplyUpdate(state, [analysis_results |-> combined])
    /\ pc' = "synthesize_feedback"
    /\ UNCHANGED <<enabled, caller, args, visited, tasks, returned, outcomes,
                   completed, llm_calls, synth_outcome, exc, ret, http>>
    /\ UNCHANGED <<repo_vars, fetch_vars, pure_vars>>

\* _synthesize_feedback up to the await of its backend call, or to its return
\* when there is nothing to synthesize.
SynthesizeStart ==
    /\ pc = "synthesize_feedback"
    /\ visited' = Append(visited, pc)
    /\ IF state.analysis_results = <<>>
       THEN /\ state' = ApplyUpdate(state, synthesize_nothing(state))
            /\ pc' = "END"
            /\ UNCHANGED llm_calls
       ELSE /\ llm_calls' = llm_calls \cup {"synthesis"}
            /\ pc' = "synth_await"
            /\ UNCHANGED state
    /\ UNCHANGED <<enabled, caller, args, tasks, returned, outcomes, completed,
                   synth_outcome, exc, ret, http>>
    /\ UNCHANGED <<repo_vars, fetch_vars, pure_vars>>

\* The synthesizer's backend call ends; _synthesize_feedback returns; the
\* finish point.
SynthesizeFinish(outcome) ==
    /\ pc = "synth_await"
    /\ state' = ApplyUpdate(state, synthesize_feedback(state, outcome))
    /\ synth_outcome' = outcome
    /\ pc' = "END"
    /\ UNCHANGED <<enabled, caller, args, visited, tasks, returned, outcomes,
                   completed, llm_calls, exc, ret, http>>
    /\ UNCHANGED <<repo_vars, fetch_vars, pure_vars>>

\* review_code: return {"status": "success", **result}
ReviewCodeReturn ==
    /\ pc = "END"
    /\ ret' = DictDisplay([status |-> "success"], state)
    /\ pc' = "returned"
    /\ UNCHANGED <<enabled, caller, args, state, visited, tasks, returned,
                   outcomes, completed, llm_calls, synth_outcome, exc, http>>
    /\ UNCHANGED <<repo_vars, fetch_vars, pure_vars>>

\* The except clause with the exception passed on under the status of a
\* finished run.
review_code_except_as_success(e) == [status |-> "success", error |-> Some(e)]

\* review_code, the except clause: the result returned for the exception e.
review_code_except(e) == [status |-> "error", error |-> Some(e)]

\* review_code: except Exception as e
ReviewCodeExcept ==
    /\ pc = "raised"
    /\ ret' = review_code_except(exc)
    /\ pc' = "returned"
    /\ UNCHANGED <<enabled, caller, args, state, visited, tasks, returned,
                   outcomes, completed, llm_calls, synth_outcome, exc, http>>
    /\ UNCHANGED <<repo_vars, fetch_vars, pure_vars>>

\* --------------------------------------------------------------- callers
\* A caller of the agent (the Streamlit page, a script) calls review_code.
DirectCall ==
    /\ caller = "none"
    /\ \E code \in CodeValues, file_extension \in Extensions :
          StartRun(code, file_extension)
    /\ caller' = "direct"
    /\ UNCHANGED <<enabled, http>>
    /\ UNCHANGED <<repo_vars, fetch_vars, pure_vars>>

\* flask_backend.analyze_code up to asyncio.run(agent.review_code(...)), or to
\* the response of one of its own checks.
FlaskAnalyze ==
    /\ caller = "none"
    /\ \E raw \in CodeValues, ext \in Extensions :
          LET code == CodeStrip(raw)
              file_extension == IF ext = "" THEN "py" ELSE ext
              refuse(status, message) ==
                  /\ http' = [status |-> status,
                              body |-> [status |-> "error", error |-> Some(message)]]
                  /\ caller' = "flask_done"
                  /\ UNCHANGED run_vars
          IN  IF CodeLen(code) = 0
              THEN refuse(400, <<"Please provide code to analyze">>)
              ELSE IF ~code.enc
              THEN refuse(500, <<"'utf-8' codec can't encode character: surrogates not allowed">>)
              ELSE IF CodeBytes(code) > max_size_bytes
              THEN refuse(413, <<"Maximum allowed payload is ",
                                 ToString(MaxFileSizeMb), "MB">>)
              ELSE /\ StartRun(code, file_extension)
                   /\ caller' = "flask"
                   /\ UNCHANGED http
    /\ UNCHANGED enabled
    /\ UNCHANGED <<repo_vars, fetch_vars, pure_vars>>

\* flask_backend.analyze_code: jsonify(result), 200
FlaskRespond ==
    /\ caller = "flask"
    /\ pc = "returned"
    /\ http' = [status |-> 200, body |-> ret]
    /\ caller' = "flask_done"
    /\ UNCHANGED enabled
    /\ UNCHANGED run_vars
    /\ UNCHANGED <<repo_vars, fetch_vars, pure_vars>>

\* The run of one file is over: nothing of it is kept but its result.
EndRun ==
    /\ args' = <<>>
    /\ pc' = "idle"
    /\ state' = <<>>
    /\ visited' = <<>>
    /\ tasks' = NoTasks
    /\ returned' = Nothing
    /\ outcomes' = Nothing
    /\ completed' = <<>>
    /\ llm_calls' = {}
    /\ synth_outcome' = <<>>
    /\ exc' = <<>>
    /\ ret' = <<>>

\* The files os.walk lists under the root, in its order: a file is kept by
\* the suffix of its path.
FileLists == UNION {[1..n -> FileSuffixes] : n \in 0..MaxFiles}

\* ext = os.path.splitext(path)[1].lower().lstrip('.') or 'txt'
path_ext(suffix) ==
    CASE suffix = ".py" -> "py"
      [] suffix = ".ipynb" -> "ipynb"
      [] OTHER -> "txt"

\* passed_ext: a notebook is reviewed as Python
passed_ext(suffix) == IF suffix = ".ipynb" THEN "py" ELSE path_ext(suffix)

\* What reading a file gives: its text, or (open / read of a plain file) an
\* exception.  _read_notebook_code catches every exception and returns "";
\* a plain file is read with errors='ignore', so its text can be encoded.
ReadText(c) == [ok |-> TRUE, code |-> c, error |-> <<>>]
ReadFailed(message) == [ok |-> FALSE, code |-> EmptyCode, error |-> message]

ReadOutcomes(suffix) ==
    IF suffix = ".ipynb"
    THEN {ReadText(c) : c \in CodeValues}
    ELSE {ReadText(c) : c \in {v \in CodeValues : v.enc}}
         \cup {ReadFailed(<<"[Errno 13] Permission denied">>)}

\* Optional[int]: None, or an integer.
NoInt == [some |-> FALSE, val |-> 0]
SomeInt(n) == [some |-> TRUE, val |-> n]

\* max_files = max_files or getattr(config, "max_files_per_repo", 20)
effective_max_files(max_files) ==
    IF max_files.some /\ max_files.val # 0 THEN max_files.val ELSE DefaultMaxFiles

\* include_extensions or getattr(config, "repo_allowed_extensions", [".py", ".ipynb"])
effective_extensions(include_extensions) ==
    IF include_extensions # <<>> THEN include_extensions ELSE <<".py", ".ipynb">>

\* _select_files: the loop over the files of os.walk(root), a file kept by the
\* (lower-cased) suffix of its name; selected is the list built so far.
RECURSIVE select_files(_, _, _, _)
select_files(listing, include_exts, max_files, selected) ==
    IF listing = <<>> THEN selected
    ELSE IF \E i \in DOMAIN include_exts : include_exts[i] = Head(listing)
    THEN LET more == Append(selected, Head(listing))
         IN  IF Len(more) >= max_files
             THEN more
             ELSE select_files(Tail(listing), include_exts, max_files, more)
    ELSE select_files(Tail(listing), include_exts, max_files, selected)

\* The inputs of analyze_repository.
Requests ==
    [repo_url : RepoUrls,
     override_branch : {None, Some(<<"master">>)},
     override_subdir : {None, Some(<<"lib">>)},
     include_extensions : {<<>>, <<".py", "">>},
     max_files : {NoInt, SomeInt(0), SomeInt(-1), SomeInt(1)}]

\* Mutant: an entry is put in front of the entries already there.
append_result_in_front(results, entry) == <<entry>> \o results

\* file_results.append(entry)
append_result(results, entry) == Append(results, entry)

\* Mutant: the files whose handling raised are counted as analyzed too.
files_analyzed_with_errors(results) ==
    Cardinality({i \in DOMAIN results : results[i].status \in {"reviewed", "error"}})

\* len([r for r in file_results if r.get("status") == "reviewed"])
files_analyzed(results) ==
    Cardinality({i \in DOMAIN results : results[i].status = "reviewed"})

\* The branch field naming the branch whose download returned the archive.
branch_field_downloaded(branch) == fetched

\* analyze_repository, the return: branch or "(auto)"
branch_field(branch) == IF Truthy(branch) THEN branch.val ELSE <<"(auto)">>

\* analyze_repository raises: the exception leaves the call.
RepoRaise(message) ==
    /\ repo_exc' = Some(message)
    /\ repo_pc' = "raised"
    /\ caller' = "repo_done"

\* analyze_repository from its call to the call of _download_repo_zip, or to
\* the ValueError of _parse_github_repo.
AnalyzeRepository ==
    /\ caller = "none"
    /\ \E r \in Requests :
          LET parsed == parse_github_repo(r.repo_url)
              branch == OrElse(r.override_branch, parsed.branch)
              subdir == OrElse(r.override_subdir, parsed.subpath)
          IN  /\ request' = [repo_url |-> r.repo_url,
                             override_branch |-> r.override_branch,
                             branch |-> branch,
                             subdir |-> subdir,
                             include_extensions |->
                                 effective_extensions(r.include_extensions),
                             max_files_arg |-> r.max_files,
                             max_files |-> effective_max_files(r.max_files)]
              /\ IF ~parsed.ok
                 THEN /\ RepoRaise(parsed.error)
                      /\ dl' = <<>>
                 ELSE /\ dl' = [owner |-> parsed.owner, repo |-> parsed.repo,
                                preferred_branch |-> branch,
                                branches |-> download_branches(branch),
                                i |-> 1, last_err |-> None]
                      /\ repo_pc' = "download"
                      /\ caller' = "repo"
                      /\ UNCHANGED repo_exc
    /\ UNCHANGED <<enabled, http, tried, archive_dirs, walk, workspace, fetched>>
    /\ UNCHANGED <<run_vars, repo_vars, pure_vars>>

\* _download_repo_zip: one round of its loop over branches.  A response of
\* status 200 returns its body; another response leaves the with block and the
\* loop goes on; an exception is kept in last_err and the loop goes on.
DownloadAttempt(outcome) ==
    /\ repo_pc = "download"
    /\ dl.i <= Len(dl.branches)
    /\ tried' = Append(tried, [branch |-> dl.branches[dl.i], kind |-> outcome.kind,
                               status |-> outcome.status, text |-> outcome.text])
    /\ IF outcome.kind = "response" /\ outcome.status = 200
       THEN /\ repo_pc' = "downloaded"
            /\ fetched' = dl.branches[dl.i]
            /\ UNCHANGED dl
       ELSE /\ dl' = [dl EXCEPT !.i = dl.i + 1,
                               !.last_err = IF outcome.kind = "raise"
                                            THEN Some(outcome.text)
                                            ELSE dl.last_err]
            /\ UNCHANGED <<repo_pc, fetched>>
    /\ UNCHANGED <<enabled, caller, http, request, archive_dirs, walk, workspace,
                   repo_exc>>
    /\ UNCHANGED <<run_vars, repo_vars, pure_vars>>

\* _download_repo_zip: the loop is over without a return.
DownloadFail ==
    /\ repo_pc = "download"
    /\ dl.i > Len(dl.branches)
    /\ RepoRaise(download_error(dl.owner, dl.repo, dl.last_err))
    /\ UNCHANGED <<enabled, http, request, dl, tried, archive_dirs, walk, workspace,
                   fetched>>
    /\ UNCHANGED <<run_vars, repo_vars, pure_vars>>

\* _extract_zip_to_temp: tempfile.mkdtemp, then the archive is opened and
\* extracted, or zipfile raises on bytes that are no archive.
ExtractZip ==
    /\ repo_pc = "downloaded"
    /\ workspace' = "exists"
    /\ dl' = <<>>
    /\ tried' = <<>>
    /\ \/ /\ archive_dirs' \in ArchiveDirs
          /\ repo_pc' = "extracted"
          /\ UNCHANGED <<caller, repo_exc>>
       \/ /\ RepoRaise(<<"File is not a zip file">>)
          /\ UNCHANGED archive_dirs
    /\ UNCHANGED <<enabled, http, request, walk, fetched>>
    /\ UNCHANGED <<run_vars, repo_vars, pure_vars>>

\* analyze_repository from the subdirectory check to
\* files = _select_files(root, include_extensions, max_files): the root is
\* narrowed to the subdirectory, or the ValueError of a missing one is raised.
SelectFiles ==
    /\ repo_pc = "extracted"
    /\ IF subdir_missing(request.subdir, archive_dirs)
       THEN /\ RepoRaise(<<"Subdirectory '">> \o request.subdir.val
                         \o <<"' not found in the repository archive">>)
            /\ UNCHANGED <<walk, files>>
       ELSE /\ walk' \in FileLists
            /\ files' = select_files(walk', request.include_extensions,
                                     request.max_files, <<>>)
            /\ repo_pc' = "selected"
            /\ UNCHANGED <<caller, repo_exc>>
    /\ UNCHANGED <<enabled, http, fidx, file_results, file_read, repo_ret, request,
                   dl, tried, archive_dirs, workspace, fetched>>
    /\ UNCHANGED <<run_vars, pure_vars>>

\* analyze_repository: agent = CodeReviewAgent(), file_results = [], and the
\* loop starts; of the arguments of the call only branch is kept, for the
\* return.
StartLoop ==
    /\ repo_pc = "selected"
    /\ fidx' = 1
    /\ file_results' = <<>>
    /\ repo_pc' = "loop"
    /\ request' = [branch |-> request.branch]
    /\ archive_dirs' = {}
    /\ walk' = <<>>
    /\ UNCHANGED <<enabled, caller, http, files, file_read, repo_ret, dl, tried,
                   workspace, repo_exc, fetched>>
    /\ UNCHANGED <<run_vars, pure_vars>>

\* One round of the loop: the file in hand is read (_read_notebook_code for a
\* notebook, open and f.read() otherwise).
ReadFile ==
    /\ caller = "repo"
    /\ repo_pc = "loop"
    /\ pc = "idle"
    /\ fidx <= Len(files)
    /\ file_read = <<>>
    /\ file_read' \in ReadOutcomes(files[fidx])
    /\ UNCHANGED <<enabled, caller, http, files, fidx, file_results, repo_ret>>
    /\ UNCHANGED <<run_vars, fetch_vars, pure_vars>>

\* The round without its size check.
before_review_unbounded(path, r, size_limit) ==
    IF ~r.ok
    THEN [path |-> path, status |-> "error", error |-> r.error]
    ELSE IF CodeLen(CodeStrip(r.code)) = 0
    THEN [path |-> path, status |-> "skipped",
          reason |-> <<"empty or unreadable file">>]
    ELSE IF ~r.code.enc
    THEN [path |-> path, status |-> "error",
          error |-> <<"'utf-8' codec can't encode character: surrogates not allowed">>]
    ELSE <<>>

\* The round from the read on, before agent.review_code: the entry appended
\* for the file when the round ends without a review (the read raised, the
\* text is blank, code.encode raised, the text is over the size limit), and
\* <<>> when the round goes on to agent.review_code.
before_review(path, r, size_limit) ==
    IF ~r.ok
    THEN [path |-> path, status |-> "error", error |-> r.error]
    ELSE IF CodeLen(CodeStrip(r.code)) = 0
    THEN [path |-> path, status |-> "skipped",
          reason |-> <<"empty or unreadable file">>]
    ELSE IF ~r.code.enc
    THEN [path |-> path, status |-> "error",
          error |-> <<"'utf-8' codec can't encode character: surrogates not allowed">>]
    ELSE IF CodeBytes(r.code) > size_limit
    THEN [path |-> path, status |-> "skipped",
          reason |-> <<"file exceeds size limit ", ToString(MaxFileSizeMb), "MB">>]
    ELSE <<>>

\* The round from the read on, up to asyncio.run(agent.review_code(...)), or
\* to the file's skipped / error entry.
RepoFile ==
    /\ caller = "repo"
    /\ repo_pc = "loop"
    /\ pc = "idle"
    /\ file_read # <<>>
    /\ LET size_limit == MaxFileSizeMb * 1024 * 1024
           entry == before_review(fidx, file_read, size_limit)
       IN  IF entry # <<>>
           THEN /\ file_results' = append_result(file_results, entry)
                /\ fidx' = fidx + 1
                /\ UNCHANGED run_vars
           ELSE /\ StartRun(file_read.code, passed_ext(files[fidx]))
                /\ UNCHANGED <<file_results, fidx>>
    /\ file_read' = <<>>
    /\ UNCHANGED <<enabled, caller, http, files, repo_ret>>
    /\ UNCHANGED <<fetch_vars, pure_vars>>

\* The entry with the status taken from the result: error for the result of
\* an exception and for a result in which ingest detected no language.
reviewed_entry_by_result(path, result) ==
    [path |-> path,
     status |-> IF result.status = "error" \/ result.language = <<>>
                THEN "error" ELSE "reviewed",
     result |-> [status |-> result.status, error |-> result.error]]

\* The entry appended for a file review_code returned a result for.  The loop
\* stores the returned dict without looking into it; of that dict the entry
\* keeps the keys every return of review_code has, status and error.
reviewed_entry(path, result) ==
    [path |-> path, status |-> "reviewed",
     result |-> [status |-> result.status, error |-> result.error]]

\* review_code returned: the file's reviewed entry.
RepoFileReviewed ==
    /\ caller = "repo"
    /\ repo_pc = "loop"
    /\ pc = "returned"
    /\ file_results' = append_result(file_results, reviewed_entry(fidx, ret))
    /\ fidx' = fidx + 1
    /\ EndRun
    /\ UNCHANGED <<enabled, caller, http, files, file_read, repo_ret>>
    /\ UNCHANGED <<fetch_vars, pure_vars>>

\* analyze_repository returns.
RepoReturn ==
    /\ caller = "repo"
    /\ repo_pc = "loop"
    /\ pc = "idle"
    /\ fidx > Len(files)
    /\ repo_ret' =
          [status |-> "success",
           branch |-> branch_field(request.branch),
           files_analyzed |-> files_analyzed(file_results),
           files_considered |-> Len(files),
           results |-> file_results]
    /\ caller' = "repo_done"
    /\ repo_pc' = "returned"
    /\ UNCHANGED <<enabled, http, files, fidx, file_results, file_read>>
    /\ UNCHANGED <<request, dl, tried, archive_dirs, walk, workspace, repo_exc,
                   fetched>>
    /\ UNCHANGED <<run_vars, pure_vars>>

\* A step of review_code between its call and its return.
WorkflowStep ==
    \/ NodeStep
    \/ NodeRaise
    \/ RunAnalyses
    \/ \E a \in AnalyzerSet : TaskStart(a)
    \/ \E a \in AnalyzerSet, outcome \in AnalysisOutcomes : TaskFinish(a, outcome)
    \/ GatherDone
    \/ SynthesizeStart
    \/ \E outcome \in SynthesisOutcomes : SynthesizeFinish(outcome)
    \/ ReviewCodeReturn
    \/ ReviewCodeExcept

Next ==
    \/ DirectCall
    \/ FlaskAnalyze
    \/ FlaskRespond
    \/ AnalyzeRepository
    \/ \E outcome \in FetchOutcomes : DownloadAttempt(outcome)
    \/ DownloadFail
    \/ ExtractZip
    \/ SelectFiles
    \/ StartLoop
    \/ ReadFile
    \/ RepoFile
    \/ RepoFileReviewed
    \/ RepoReturn
    \/ WorkflowStep

Spec == Init /\ [][Next]_vars

\* ------------------------------------- the text functions on their own
\* The texts handed to _clean_llm_response: every text of at most MaxText
\* atoms over the characters its wrapper tokens and backtick sequences are
\* made of ("<s>", "` ``").
TextAtoms == {"<", "s", ">", " ", "BT"}
Texts == UNION {[1..n -> TextAtoms] : n \in 0..MaxText}

InitClean ==
    /\ enabled = AnalyzerSet
    /\ NoCall
    /\ text \in Texts
    /\ cleaned = <<>>
    /\ NoFallback /\ NoParse /\ NoReport /\ NoLocator

\* _clean_llm_response(text)
CleanResponse ==
    /\ cleaned = <<>>
    /\ cleaned' = <<clean_llm_response(text)>>
    /\ UNCHANGED <<enabled, caller, http, text, fallback_vars>>
    /\ UNCHANGED <<run_vars, repo_vars, fetch_vars, parse_vars, report_vars,
                   locator_vars>>

\* _clean_llm_response on the text it returned
CleanAgain ==
    /\ Len(cleaned) = 1
    /\ cleaned' = Append(cleaned, clean_llm_response(cleaned[1]))
    /\ UNCHANGED <<enabled, caller, http, text, fallback_vars>>
    /\ UNCHANGED <<run_vars, repo_vars, fetch_vars, parse_vars, report_vars,
                   locator_vars>>

NextClean ==
    \/ CleanResponse
    \/ CleanAgain

SpecClean == InitClean /\ [][NextClean]_vars

\* An AnalysisResult of two issues, the second one without a title.
TwoIssues ==
    [issues |-> <<[title |-> <<"A">>, description |-> <<"x">>,
                   severity |-> "low", code |-> <<"c">>],
                  [description |-> <<"y">>, severity |-> "high",
                   suggestion |-> <<"s">>]>>,
     summary |-> <<"two findings">>,
     passed |-> FALSE]

\* The analysis_results handed to _fallback_synthesis: at most MaxKeys
\* analyzer keys in any insertion order, each with a result _analyze_code can
\* store under it or with a result of two issues.
FallbackItems ==
    {analyze_code(a, outcome).analysis_results[1] :
        a \in AnalyzerSet, outcome \in AnalysisOutcomes}
    \cup {[k |-> a, v |-> TwoIssues] : a \in AnalyzerSet}
FallbackInputs ==
    {d \in UNION {[1..n -> FallbackItems] : n \in 0..MaxKeys} :
        \A i, j \in DOMAIN d : d[i].k = d[j].k => i = j}

InitFallback ==
    /\ enabled = AnalyzerSet
    /\ NoCall
    /\ NoClean /\ NoParse /\ NoReport /\ NoLocator
    /\ fb_arg \in FallbackInputs
    /\ fb_calls = <<>>

\* _fallback_synthesis(fb_arg)
FallbackCall ==
    /\ Len(fb_calls) < MaxCalls
    /\ fb_calls' = Append(fb_calls, fallback_synthesis(fb_arg))
    /\ UNCHANGED <<enabled, caller, http, clean_vars, fb_arg>>
    /\ UNCHANGED <<run_vars, repo_vars, fetch_vars, parse_vars, report_vars,
                   locator_vars>>

NextFallback == FallbackCall

SpecFallback == InitFallback /\ [][NextFallback]_vars

\* The responses handed to _parse_analysis_response: every text of at most
\* MaxResponse characters out of a letter, a blank and a line break.
ResponseAtoms == {"x", " ", "\n"}
Responses == UNION {[1..n -> ResponseAtoms] : n \in 0..MaxResponse}

InitParse ==
    /\ enabled = AnalyzerSet
    /\ NoCall
    /\ NoClean /\ NoFallback /\ NoReport /\ NoLocator
    /\ parse_in \in [response : Responses, analysis_type : AnalyzerSet]
    /\ parse_out = <<>>

\* _parse_analysis_response(response, analysis_type)
ParseResponse ==
    /\ parse_out = <<>>
    /\ parse_out' =
          <<parse_analysis_response(parse_in.response, parse_in.analysis_type)>>
    /\ UNCHANGED <<enabled, caller, http, parse_in>>
    /\ UNCHANGED <<run_vars, repo_vars, fetch_vars, clean_vars, fallback_vars,
                   report_vars, locator_vars>>

NextParse == ParseResponse

SpecParse == InitParse /\ [][NextParse]_vars

\* The URLs handed to _parse_github_repo: a host, and a path of at most
\* MaxSegments segments, "" being the empty segment between two slashes.
LocatorHosts == {"github.com", "GitHub.com", "gitlab.com"}
LocatorSegments == {"o", "r.git", "tree", "b", ""}
Locators ==
    [host : LocatorHosts,
     path : UNION {[1..n -> LocatorSegments] : n \in 0..MaxSegments}]

InitLocator ==
    /\ enabled = AnalyzerSet
    /\ NoCall
    /\ NoClean /\ NoFallback /\ NoParse /\ NoReport
    /\ locator_in \in Locators
    /\ locator_out = <<>>

\* _parse_github_repo(locator_in)
ParseLocator ==
    /\ locator_out = <<>>
    /\ locator_out' = <<parse_github_repo(locator_in)>>
    /\ UNCHANGED <<enabled, caller, http, locator_in>>
    /\ UNCHANGED <<run_vars, repo_vars, fetch_vars, clean_vars, fallback_vars,
                   parse_vars, report_vars>>

NextLocator == ParseLocator

SpecLocator == InitLocator /\ [][NextLocator]_vars

\* --------------------------------------- the report builder (repo_analyzer)
\* A line of the report is a sequence of atoms; the atom "BT" is one backtick,
\* " -- " the dash between path and status.
\* status.upper()
UpperStatus(status) ==
    CASE status = "reviewed" -> "REVIEWED"
      [] status = "skipped" -> "SKIPPED"
      [] status = "error" -> "ERROR"
      [] OTHER -> status

\* d.get(key) or default, d a record, for a text, list or dict
GetOr(d, key, default) ==
    IF key \in DOMAIN d /\ d[key] # <<>> THEN d[key] ELSE default

\* d.get(key) or default, for a word (a path, a status, a severity)
GetWord(d, key, default) ==
    IF key \in DOMAIN d /\ d[key] # "" THEN d[key] ELSE default

\* _append_issue_section: the lines of issue number i
report_issue_lines(i, iss) ==
    LET title == GetOr(iss, "title", <<"Issue ", ToString(i)>>)
        sev == Upper(GetWord(iss, "severity", "medium"))
        desc == Strip(GetOr(iss, "description", GetOr(iss, "error", <<>>)))
    IN  << <<"- **[", sev, "] ">> \o title \o <<"**">> >>
        \o (IF desc # <<>> THEN << <<"  - ">> \o desc >> ELSE <<>>)

RECURSIVE report_issues(_, _)
report_issues(issues, i) ==
    IF i > Len(issues) THEN <<>>
    ELSE report_issue_lines(i, issues[i]) \o report_issues(issues, i + 1)

\* _append_issue_section with nothing written for a section without issues.
append_issue_section_quiet(lines, section) ==
    LET issues == GetOr(section, "issues", <<>>)
    IN  IF issues = <<>>
        THEN lines \o << <<>> >>
        ELSE lines \o report_issues(issues, 1) \o << <<>> >>

\* _append_issue_section
append_issue_section(lines, section) ==
    LET issues == GetOr(section, "issues", <<>>)
    IN  IF issues = <<>>
        THEN lines \o << <<"- **No issues found.**">>, <<>> >>
        ELSE lines \o report_issues(issues, 1) \o << <<>> >>

\* analysis_results.get(key) or {}
section_of(analysis_results, key) ==
    IF key \in Keys(analysis_results) THEN Get(analysis_results, key) ELSE <<>>

\* build_markdown_report: the lines of one entry of results
report_file_lines(item) ==
    LET path == GetWord(item, "path", "")
        status == GetWord(item, "status", "")
        header == <<"## File: ", "BT", path, "BT", " -- ", UpperStatus(status)>>
    IN  IF status # "reviewed"
        THEN LET reason == GetOr(item, "reason",
                                 GetOr(item, "error", <<"Not reviewed">>))
             IN  <<header, <<>>, <<"> ">> \o reason, <<>> >>
        ELSE LET result == GetOr(item, "result", <<>>)
                 analysis_results == GetOr(result, "analysis_results", <<>>)
                 sec == section_of(analysis_results, "security")
                 main == section_of(analysis_results, "maintainability")
                 sty == section_of(analysis_results, "style")
                 l1 == append_issue_section(<<header, <<"### Security">> >>, sec)
                 l2 == append_issue_section(Append(l1, <<"### Maintainability">>), main)
                 l3 == append_issue_section(Append(l2, <<"### Style">>), sty)
                 fb == Strip(GetOr(result, "feedback", <<>>))
             IN  l3 \o (IF fb # <<>> THEN << <<"### Reviewer Notes">>, fb >> ELSE <<>>)
                    \o << <<>> >>

RECURSIVE report_files(_, _)
report_files(results, i) ==
    IF i > Len(results) THEN <<>>
    ELSE report_file_lines(results[i]) \o report_files(results, i + 1)

\* for k, v in ext_counts.items(): lines.append(...)
RECURSIVE report_ext_counts(_)
report_ext_counts(ext_counts) ==
    IF ext_counts = <<>> THEN <<>>
    ELSE << <<"- **", Head(ext_counts).k, "**: ", ToString(Head(ext_counts).v)>> >>
         \o report_ext_counts(Tail(ext_counts))

\* build_markdown_report
build_markdown_report(analysis) ==
    IF GetWord(analysis, "status", "") # "success"
    THEN <<"# Code Review Report\n\nNo valid analysis data provided.">>
    ELSE LET repo == GetOr(analysis, "repository", <<>>)
             branch == GetOr(analysis, "branch", <<>>)
             subdir == GetOr(analysis, "subdirectory", <<>>)
             struct == GetOr(analysis, "structure_summary", <<>>)
             ext_counts == GetOr(struct, "extension_counts", <<>>)
             top_tree == GetOr(struct, "top_level_tree", <<>>)
             lines ==
                << <<"# Code Review Report -- ">> \o repo,
                   <<>>,
                   <<"## Repository Info">>,
                   <<>>,
                   <<"- **Repository**: ", "BT">> \o repo \o <<"BT">>,
                   <<"- **Branch**: ", "BT">> \o branch \o <<"BT">>,
                   <<"- **Subdirectory**: ", "BT">>
                       \o (IF subdir # <<>> THEN subdir ELSE <<"(root)">>)
                       \o <<"BT">>,
                   <<"- **Files analyzed**: ",
                     ToString(IF "files_analyzed" \in DOMAIN analysis
                              THEN analysis.files_analyzed ELSE 0),
                     " / ",
                     ToString(IF "files_considered" \in DOMAIN analysis
                              THEN analysis.files_considered ELSE 0)>>,
                   <<>> >>
                \o (IF ext_counts # <<>>
                    THEN << <<"### Extension Counts">> >>
                         \o report_ext_counts(ext_counts) \o << <<>> >>
                    ELSE <<>>)
                \o (IF top_tree # <<>>
                    THEN << <<"### Top-level Structure">>, <<"[fence]">>, top_tree,
                            <<"[fence]">>, <<>> >>
                    ELSE <<>>)
                \o report_files(GetOr(analysis, "results", <<>>), 1)
         IN  Strip(JoinLines(lines)) \o <<"\n">>

\* The analysis_results of a reviewed file: none (every analyzer disabled),
\* the style key alone without issue, three keys with a failed backend call,
\* a finding and two issues, two keys in another insertion order.
ReportAnalysisResults ==
    {<<>>,
     analyze_code("style", Responded(<<" ">>)).analysis_results,
     <<analyze_code("security", Failed(<<"timeout">>)).analysis_results[1],
       analyze_code("maintainability", Responded(<<" ", "x">>)).analysis_results[1],
       [k |-> "style", v |-> TwoIssues]>>,
     <<analyze_code("style", Responded(<<" ", "x">>)).analysis_results[1],
       [k |-> "security", v |-> TwoIssues]>>}

\* The results review_code hands to the batch driver.
ReportResults ==
    {[status |-> "error", error |-> <<"boom">>]}
    \cup [status : {"success"},
          analysis_results : ReportAnalysisResults,
          feedback : {<<>>, <<" ", "\n">>, <<" ", "notes", " ">>}]

\* The entries analyze_repository appends for the file of the given path.
ReportEntries(path) ==
    {[path |-> path, status |-> "skipped", reason |-> <<"empty or unreadable file">>],
     [path |-> path, status |-> "error", error |-> <<"[Errno 13] Permission denied">>],
     [path |-> path, status |-> "error", error |-> <<>>]}
    \cup {[path |-> path, status |-> "reviewed", result |-> r] : r \in ReportResults}

ReportPaths == <<"a.py", "b.ipynb", "c.py">>

\* The results lists of at most MaxEntries entries, entry i of path i.
ReportResultLists ==
    UNION {{r \in [1..n -> UNION {ReportEntries(ReportPaths[i]) : i \in 1..n}] :
               \A i \in 1..n : r[i].path = ReportPaths[i]} : n \in 0..MaxEntries}

\* What analyze_repository returns for such results, with and without a
\* structure summary, and the same with a status other than success.
ReportInputs ==
    {[status |-> st,
      repository |-> <<"o/r">>,
      branch |-> <<"(auto)">>,
      subdirectory |-> <<>>,
      structure_summary |->
          IF full THEN [extension_counts |-> <<[k |-> ".py", v |-> 2]>>,
                        top_level_tree |-> <<"tree">>]
          ELSE [extension_counts |-> <<>>, top_level_tree |-> <<>>],
      files_analyzed |-> files_analyzed(r),
      files_considered |-> Len(r),
      results |-> r] :
        st \in {"success", "error"}, full \in BOOLEAN, r \in ReportResultLists}

InitReport ==
    /\ enabled = AnalyzerSet
    /\ NoCall
    /\ NoClean /\ NoFallback /\ NoParse /\ NoLocator
    /\ report_in \in ReportInputs
    /\ report_out = <<>>

\* build_markdown_report(report_in)
BuildReport ==
    /\ report_out = <<>>
    /\ report_out' = <<build_markdown_report(report_in)>>
    /\ UNCHANGED <<enabled, caller, http, report_in>>
    /\ UNCHANGED <<run_vars, repo_vars, fetch_vars, clean_vars, fallback_vars,
                   parse_vars, locator_vars>>

NextReport == BuildReport

SpecReport == InitReport /\ [][NextReport]_vars

\* ================================================================ claims
\* What the claims say of the input of a run.
NoCode(a) == CodeLen(a.code) = 0
Unsupported(a) == Lower(a.file_extension) \notin {"py", "js", "ts", "java", "go"}
Oversize(a) == a.code.enc /\ CodeBytes(a.code) > max_size_bytes
ValidationFails(a) == NoCode(a) \/ Unsupported(a) \/ Oversize(a)
ValidInput(a) == a.code.enc /\ ~ValidationFails(a)

\* The message of the first failed check, in the order empty, extension, size.
FirstFailure(a) ==
    IF NoCode(a) THEN <<"No code provided">>
    ELSE IF Unsupported(a)
    THEN <<"Unsupported file type: ", Lower(a.file_extension)>>
    ELSE <<"File size exceeds the maximum limit of ", ToString(MaxFileSizeMb), "MB">>

Ran(node) == \E i \in DOMAIN visited : visited[i] = node
TerminalsRun ==
    Cardinality({i \in DOMAIN visited :
                    visited[i] \in {"handle_error", "synthesize_feedback"}})
OnErrorPath == pc = "handle_error" \/ Ran("handle_error")
OnAnalysisPath == pc = "run_analyses" \/ Ran("run_analyses")
AfterAnalysis == pc = "synthesize_feedback" \/ Ran("synthesize_feedback")
InRun == args # <<>>

\* C1: once ingest has returned, the run is on the way through the error
\* handler if and only if validation failed (empty code, unsupported
\* extension, code over the size limit), and on the way through the analysis
\* stage in every other case.
C1_RouteIffValidationFailed ==
    (InRun /\ visited # <<>> /\ pc # "raised" /\ exc = <<>>) =>
        /\ (ValidationFails(args) <=> OnErrorPath)
        /\ (~ValidationFails(args) <=> OnAnalysisPath)

\* C2: in a run whose input fails validation no backend call is made, neither
\* by an analyzer nor by the synthesizer, no analysis or synthesis stage is
\* entered, and the run returns having executed ingest and the error handler.
C2_NoBackendCallOnInvalidInput ==
    (InRun /\ ValidationFails(args)) =>
        /\ llm_calls = {}
        /\ pc \notin {"run_analyses", "gather", "synthesize_feedback", "synth_await"}
        /\ (pc = "returned" => visited = <<"ingest_code", "handle_error">>)

\* C3: when validation fails, the returned result's error is the message of
\* the first failed check and its feedback is "Error: " followed by it.
C3_ValidationMessageReturned ==
    (InRun /\ pc = "returned" /\ ValidationFails(args)) =>
        /\ ret.error = Some(FirstFailure(args))
        /\ ret.feedback = <<"Error: ">> \o FirstFailure(args)

WorkflowCanStep ==
    \/ pc \in PlainNodes
    \/ pc \in {"run_analyses", "synthesize_feedback", "synth_await", "END", "raised"}
    \/ /\ pc = "gather"
       /\ \/ \E a \in AnalyzerSet : tasks[a] \in {"pending", "awaiting"}
          \/ gather_done(tasks)

C5_ValidInputAlwaysDone ==
    (InRun /\ ValidInput(args)) =>
        /\ pc \notin {"raised", "handle_error"}
        /\ exc = <<>>
        /\ (pc = "returned" =>
                /\ visited = <<"ingest_code", "run_analyses", "synthesize_feedback">>
                /\ ret.status = "success"
                /\ Strip(ret.feedback) # <<>>)

\* C5 witness: a valid input, every analyzer enabled and failed, the
\* synthesizer's call failed too, and the run returned.
C5_Witness ==
    /\ InRun /\ pc = "returned" /\ ValidInput(args)
    /\ enabled = AnalyzerSet
    /\ \A a \in AnalyzerSet : ~outcomes[a].ok
    /\ synth_outcome # <<>> /\ ~synth_outcome.ok

\* C6: after the analysis stage of a run on valid input the keys of
\* analysis_results are exactly the enabled analyzers, each once; a finished
\* task has written its own key and no other, whether its call succeeded or
\* failed; a disabled analyzer has no task.
C6_KeysAreEnabledAnalyzers ==
    (InRun /\ ValidInput(args)) =>
        /\ \A a \in AnalyzerSet :
              tasks[a] = "done" =>
                  /\ Len(returned[a].analysis_results) = 1
                  /\ returned[a].analysis_results[1].k = a
        /\ (AfterAnalysis =>
                /\ Keys(state.analysis_results) = enabled
                /\ Len(state.analysis_results) = Cardinality(enabled)
                /\ \A a \in AnalyzerSet \ enabled : tasks[a] = "none")

\* C6 witness: one analyzer disabled, one enabled analyzer succeeded and one
\* failed, analysis over.
C6_Witness ==
    /\ InRun /\ ValidInput(args) /\ AfterAnalysis
    /\ Cardinality(enabled) = 2
    /\ \E a, b \in enabled : outcomes[a].ok /\ ~outcomes[b].ok

\* The items of analysis_results in the order of the tasks, each enabled
\* analyzer with what its own task returned.
RECURSIVE InTaskOrder(_)
InTaskOrder(i) ==
    IF i > Len(analyzer_names) THEN <<>>
    ELSE (IF analyzer_names[i] \in enabled
          THEN returned[analyzer_names[i]].analysis_results
          ELSE <<>>)
         \o InTaskOrder(i + 1)

\* C7: whatever the order in which the tasks completed, the merged
\* analysis_results (the synthesizer's input, the returned map) is the same
\* sequence of items: the enabled analyzers in task order, each with the
\* result of its own task.
C7_MergeIndependentOfCompletionOrder ==
    (InRun /\ AfterAnalysis /\ exc = <<>>) =>
        /\ state.analysis_results = InTaskOrder(1)
        /\ (pc = "returned" => ret.analysis_results = InTaskOrder(1))

\* C7 witness: the three tasks completed in the reverse of their task order.
C7_Witness ==
    /\ InRun /\ pc = "returned"
    /\ completed = <<"style", "maintainability", "security">>

\* C8: the synthesis stage is entered, and the synthesizer's backend call is
\* made, only when every task of an enabled analyzer is done.
C8_SynthesisAfterAllTasks ==
    (InRun /\ (AfterAnalysis \/ "synthesis" \in llm_calls)) =>
        \A a \in enabled : tasks[a] = "done"

\* C8 witness: every analyzer enabled, the first task to complete failed, and
\* the synthesizer's call is under way.
C8_Witness ==
    /\ InRun /\ pc = "synth_await"
    /\ enabled = AnalyzerSet
    /\ ~outcomes[completed[1]].ok
    /\ \E a \in AnalyzerSet : outcomes[a].ok

\* C9: after analysis, the key of an analyzer whose backend call failed holds
\* one issue, of severity high, carrying the failure message, with passed
\* false; the key of every other enabled analyzer holds the parse of its own
\* response, whichever other analyzers failed.
C9_AnalyzerFailureIsolated ==
    (InRun /\ AfterAnalysis /\ exc = <<>>) =>
        \A a \in enabled :
            LET r == Get(state.analysis_results, a)
            IN  IF outcomes[a].ok
                THEN r = parse_analysis_response(outcomes[a].text, a)
                ELSE /\ r.issues = <<[error |-> outcomes[a].text, severity |-> "high"]>>
                     /\ r.passed = FALSE

\* C9 witness: exactly one enabled analyzer failed, another one reported a
\* finding.
C9_Witness ==
    /\ InRun /\ AfterAnalysis
    /\ Cardinality({a \in enabled : ~outcomes[a].ok}) = 1
    /\ \E a \in enabled : outcomes[a].ok /\ Strip(outcomes[a].text) # <<>>

\* C10: no analyzer backend call is made on code whose UTF-8 byte length
\* exceeds max_file_size_mb * 1024 * 1024, whoever started the run.
C10_NoAnalyzerCallOnOversizeCode ==
    (InRun /\ llm_calls \cap AnalyzerSet # {}) =>
        CodeBytes(state.code) <= max_size_bytes

\* C11: with a supported extension, a code of exactly max_size_bytes bytes
\* passes ingest (no error, on to the analysis stage) and a code of
\* max_size_bytes + 1 bytes leaves ingest with the size error and does not go
\* on to the analysis stage.
C11_SizeBoundary ==
    (InRun /\ visited # <<>> /\ args.code.enc /\ ~NoCode(args) /\ ~Unsupported(args)) =>
        /\ (CodeBytes(args.code) = max_size_bytes =>
                /\ ~Truthy(state.error)
                /\ OnAnalysisPath)
        /\ (CodeBytes(args.code) = max_size_bytes + 1 =>
                /\ state.error = Some(<<"File size exceeds the maximum limit of ",
                                        ToString(MaxFileSizeMb), "MB">>)
                /\ ~OnAnalysisPath)

\* C12: a file extension that is no key of the language table makes the run
\* fail validation whatever the code is: after ingest the state carries a
\* validation error, no analyzer is ever called, and the run returns through
\* the error handler.
C12_UnsupportedExtensionFails ==
    (InRun /\ Unsupported(args)) =>
        /\ (visited # <<>> => Truthy(state.error))
        /\ llm_calls \cap AnalyzerSet = {}
        /\ pc \notin {"run_analyses", "gather"}
        /\ (pc = "returned" => visited = <<"ingest_code", "handle_error">>)

\* The sanitized text of the synthesizer's backend response.
SanitizedText == clean_llm_response(synth_outcome.text)

\* C13: once the synthesizer's backend call has ended on non-empty
\* analysis_results, the feedback is _fallback_synthesis(analysis_results) if
\* the call raised or its sanitized text is blank, and the sanitized text
\* otherwise; in both cases no stage raises and the run returns that feedback
\* with status success.
C13_FallbackOrSanitizedText ==
    (InRun /\ synth_outcome # <<>> /\ Ran("synthesize_feedback")) =>
        LET expected ==
                IF ~synth_outcome.ok \/ Strip(SanitizedText) = <<>>
                THEN fallback_synthesis(state.analysis_results)
                ELSE SanitizedText
        IN  /\ state.analysis_results # <<>>
            /\ state.feedback = expected
            /\ exc = <<>>
            /\ pc \in {"END", "returned"}
            /\ (pc = "returned" =>
                    ret.feedback = expected /\ ret.status = "success")

\* C13 witness: the backend answered a text that is not blank but is blank
\* once sanitized, and the run returned.
C13_Witness ==
    /\ InRun /\ pc = "returned"
    /\ synth_outcome # <<>> /\ synth_outcome.ok
    /\ Strip(synth_outcome.text) # <<>>
    /\ Strip(SanitizedText) = <<>>
    /\ state.analysis_results # <<>>

C15_CleanIdempotent ==
    Len(cleaned) = 2 => cleaned[2] = cleaned[1]

\* An attempt of _download_repo_zip that returned the archive.
Succeeded(attempt) == attempt.kind = "response" /\ attempt.status = 200

\* The text t occurs in the message.
Mentions(message, t) ==
    \E i \in 1..(Len(message) - Len(t) + 1) : SubSeq(message, i, i + Len(t) - 1) = t

\* C16: the attempts of _download_repo_zip are made in the order explicit
\* branch (if one was given), main, master, no branch twice, three at most;
\* only the last attempt can have succeeded, and the download has returned
\* exactly when it has.
C16_BranchOrder ==
    tried # <<>> =>
        LET explicit == dl.preferred_branch
            defaults == SelectSeq(<< <<"main">>, <<"master">> >>,
                                  LAMBDA b : ~Truthy(explicit) \/ b # explicit.val)
            order == (IF Truthy(explicit) THEN <<explicit.val>> ELSE <<>>) \o defaults
        IN  /\ Len(tried) <= Len(order)
            /\ Len(tried) <= 3
            /\ \A i \in DOMAIN tried : tried[i].branch = order[i]
            /\ \A i, j \in DOMAIN tried : tried[i].branch = tried[j].branch => i = j
            /\ \A i \in DOMAIN tried : Succeeded(tried[i]) => i = Len(tried)
            /\ (repo_pc = "downloaded" <=> Succeeded(tried[Len(tried)]))

\* C16 witness: an explicit branch and main failed, master returned the
\* archive.
C16_Witness ==
    /\ repo_pc = "downloaded"
    /\ Len(tried) = 3
    /\ tried[3].branch = <<"master">>

\* C17: with no explicit branch, when the attempts for both default branches
\* failed, the error of the fetch names the last attempted branch.
C17_ErrorNamesLastBranch ==
    (repo_pc = "raised" /\ tried # <<>> /\ ~Truthy(dl.preferred_branch)) =>
        /\ Len(tried) = 2
        /\ Mentions(repo_exc.val, tried[Len(tried)].branch)

\* C18: when every download attempt failed, the error's message references
\* the failure of the last failed attempt: it is not built from an absent
\* failure (None), it carries the text of the last attempt's exception when
\* that attempt raised, and it carries no other text of an earlier attempt's
\* exception.
C18_ErrorReferencesLastFailure ==
    (repo_pc = "raised" /\ tried # <<>>) =>
        LET last == tried[Len(tried)]
        IN  /\ dl.last_err # None
            /\ (last.kind = "raise" => Mentions(repo_exc.val, last.text))
            /\ \A i \in DOMAIN tried :
                  (tried[i].kind = "raise" /\ tried[i].text # last.text) =>
                      ~Mentions(repo_exc.val, tried[i].text)

\* analyze_repository ended with a top-level error: an exception left it, it
\* returned nothing, and no file was handled and no review_code run started.
TopLevelError ==
    /\ repo_pc = "raised"
    /\ caller = "repo_done"
    /\ repo_exc.some
    /\ repo_ret = <<>>
    /\ files = <<>>
    /\ file_results = <<>>
    /\ NoRun

\* C19: the step analyze_repository takes on a locator that cannot be parsed
\* (a host other than github.com, fewer than two path segments), after every
\* branch's download attempt failed, or on a subdirectory that is not in the
\* archive, ends the call with a top-level error; and every call an exception
\* leaves has returned no analysis and started no per-file run.
C19_FetchFailureIsTopLevel ==
    [][/\ (/\ caller = "none"
           /\ request' # <<>>
           /\ \/ LowerHost(request'.repo_url.host) # "github.com"
              \/ Cardinality({i \in DOMAIN request'.repo_url.path :
                                 request'.repo_url.path[i] # ""}) < 2)
          => TopLevelError'
       /\ (/\ repo_pc = "download"
           /\ tried # <<>> /\ Len(tried) = Len(dl.branches)
           /\ \A i \in DOMAIN tried : ~Succeeded(tried[i]))
          => TopLevelError'
       /\ (/\ repo_pc = "extracted"
           /\ Truthy(request.subdir)
           /\ request.subdir.val \notin archive_dirs)
          => TopLevelError'
       /\ (repo_pc' = "raised" => TopLevelError')
      ]_vars

\* C19 witness: the call ended on a subdirectory missing from the archive.
C19_Witness ==
    /\ repo_pc = "raised"
    /\ workspace = "exists"
    /\ repo_exc.val[1] = "Subdirectory '"

\* C20: once the batch call is over, by a return or by an exception, the
\* temporary directory it created exists no more.
C20_WorkspaceReleased ==
    caller = "repo_done" => workspace # "exists"

\* Handling the file that was read raises: the read itself raised, or the
\* text is not blank and cannot be encoded for the size check.
HandlingRaises(r) ==
    \/ ~r.ok
    \/ /\ CodeLen(r.code) > r.code.ws
       /\ ~r.code.enc

\* C21: a failure while one file is handled is recorded as that file's entry,
\* with status error and the message, and the loop goes on with the next
\* file: the loop is left only when every file has its entry, and the call
\* then returns files_analyzed equal to the number of reviewed entries.
C21_FileFailureIsolated ==
    [][/\ (file_read # <<>> /\ HandlingRaises(file_read)) =>
              /\ Len(file_results') = Len(file_results) + 1
              /\ SubSeq(file_results', 1, Len(file_results)) = file_results
              /\ LET entry == file_results'[Len(file_results')]
                 IN  /\ entry.path = fidx
                     /\ entry.status = "error"
                     /\ entry.error # <<>>
                     /\ (~file_read.ok => entry.error = file_read.error)
              /\ fidx' = fidx + 1
              /\ repo_pc' = "loop" /\ caller' = "repo" /\ repo_exc' = None
       /\ (repo_pc = "loop" /\ repo_pc' # "loop") =>
              /\ repo_pc' = "returned"
              /\ Len(file_results) = Len(files)
              /\ repo_ret'.results = file_results
              /\ repo_ret'.files_analyzed =
                    Cardinality({i \in DOMAIN file_results :
                                    file_results[i].status = "reviewed"})
      ]_vars

\* C21 witness: of two files the first one's handling raised and the second
\* was reviewed; the call returned files_analyzed = 1.
C21_Witness ==
    /\ repo_pc = "returned"
    /\ Len(repo_ret.results) = 2
    /\ repo_ret.results[1].status = "error"
    /\ repo_ret.results[2].status = "reviewed"
    /\ repo_ret.files_analyzed = 1

\* C22: the results hold exactly one entry per selected file, in the order of
\* the selected files (entry i is the entry of file i), whatever the statuses
\* are; the returned results have as many entries as files_considered.
C22_OneResultPerFileInOrder ==
    /\ repo_pc = "loop" =>
          /\ Len(file_results) = fidx - 1
          /\ Len(file_results) <= Len(files)
          /\ \A i \in DOMAIN file_results : file_results[i].path = i
    /\ repo_pc = "returned" =>
          /\ Len(repo_ret.results) = Len(files)
          /\ Len(repo_ret.results) = repo_ret.files_considered
          /\ \A i \in DOMAIN repo_ret.results : repo_ret.results[i].path = i

\* C22 witness: two files, the first skipped and the second reviewed.
C22_Witness ==
    /\ repo_pc = "returned"
    /\ Len(repo_ret.results) = 2
    /\ repo_ret.results[1].status = "skipped"
    /\ repo_ret.results[2].status = "reviewed"

\* The selection cap of a call: the max_files its caller supplied, the
\* default when the caller supplied none.
SelectionCap(max_files_arg) ==
    IF max_files_arg.some THEN max_files_arg.val ELSE DefaultMaxFiles

\* C23: files_analyzed <= files_considered <= selection cap, for every
\* max_files a caller supplies: no more files are selected than the cap, and
\* the returned counts are those of the selected files.
C23_CountsWithinCap ==
    /\ repo_pc = "selected" => Len(files) <= SelectionCap(request.max_files_arg)
    /\ repo_pc = "returned" =>
          /\ repo_ret.files_considered = Len(files)
          /\ repo_ret.files_analyzed <= repo_ret.files_considered

\* C24: _select_files on N eligible files and max_files = k returns the first
\* min(N, k) eligible files of the walk, in walk order, and nothing else (no
\* file at all when k is below 1).
C24_FirstEligibleUpToCap ==
    repo_pc = "selected" =>
        LET eligible == SelectSeq(walk,
                           LAMBDA f : \E i \in DOMAIN request.include_extensions :
                                         request.include_extensions[i] = f)
            k == request.max_files
            n == IF Len(eligible) <= k THEN Len(eligible)
                 ELSE IF k < 0 THEN 0 ELSE k
        IN  /\ Len(files) = n
            /\ files = SubSeq(eligible, 1, n)

\* C25: no exception leaves review_code: the only step of a run in which a
\* stage raised is the return of {status: 'error', error: <message>} with the
\* message of the exception, and a run whose input fails validation never
\* raises and returns a result that carries a status.
C25_NoFaultEscapes ==
    [][InRun =>
          /\ (pc = "raised" =>
                  /\ pc' = "returned"
                  /\ ret' = [status |-> "error", error |-> Some(exc)]
                  /\ exc' = exc /\ exc # <<>>)
          /\ (ValidationFails(args) /\ pc # "returned" /\ pc' = "returned" =>
                  /\ exc = <<>>
                  /\ "status" \in DOMAIN ret'
                  /\ ret'.status \in {"success", "error"})
          /\ (ValidationFails(args) => pc' # "raised")]_vars

\* C25 witness: a run in which a stage raised has returned the error result.
C25_Witness ==
    /\ InRun /\ pc = "returned" /\ exc # <<>>
    /\ ret.status = "error" /\ ret.error = Some(exc)

\* C26: _parse_analysis_response of an empty or whitespace-only response is
\* {issues: [], summary: "No <type> issues detected", passed: true}; of any
\* other response it has exactly one issue, of severity medium, whose
\* description is the response from its first to its last character that is
\* not whitespace, and passed is false.
C26_ParsedResponse ==
    parse_out # <<>> =>
        LET response == parse_in.response
            result == parse_out[1]
            solid == {i \in DOMAIN response : ~IsSpace(response[i])}
        IN  IF solid = {}
            THEN /\ result.issues = <<>>
                 /\ result.summary =
                       <<"No ", parse_in.analysis_type, " issues detected">>
                 /\ result.passed
            ELSE LET lo == CHOOSE i \in solid : \A j \in solid : i <= j
                     hi == CHOOSE i \in solid : \A j \in solid : j <= i
                 IN  /\ Len(result.issues) = 1
                     /\ result.issues[1].severity = "medium"
                     /\ result.issues[1].description = SubSeq(response, lo, hi)
                     /\ ~result.passed

\* C26 witness: a response with whitespace around and inside its text has been
\* parsed.
C26_Witness ==
    /\ parse_out # <<>>
    /\ parse_in.response = <<" ", "x", "\n", "x">>
    /\ parse_out[1].issues[1].description = <<"x", "\n", "x">>

\* C26 witness of the blank case: a whitespace-only response has been parsed.
C26_WitnessBlank ==
    /\ parse_out # <<>>
    /\ parse_in.response = <<" ", "\n">>
    /\ parse_out[1].passed

\* C27: with every analyzer disabled the merged analysis_results is empty, and
\* on an empty analysis_results the synthesizer makes no backend call and
\* returns the feedback "No analysis results to synthesize"; the run goes on
\* to its end and returns that feedback with status success.
C27_NothingToSynthesize ==
    /\ (InRun /\ enabled = {} /\ AfterAnalysis) => state.analysis_results = <<>>
    /\ (InRun /\ Ran("synthesize_feedback") /\ state.analysis_results = <<>>) =>
            /\ enabled = {}
            /\ llm_calls = {}
            /\ synth_outcome = <<>>
            /\ exc = <<>>
            /\ pc \in {"END", "returned"}
            /\ state.feedback = <<"No analysis results to synthesize">>
            /\ (pc = "returned" =>
                    /\ ret.status = "success"
                    /\ ret.feedback = <<"No analysis results to synthesize">>)

\* C27 witness: a run with no analyzer enabled went through the synthesizer
\* and returned.
C27_Witness ==
    /\ InRun /\ enabled = {} /\ pc = "returned"
    /\ Ran("run_analyses") /\ Ran("synthesize_feedback")
    /\ state.analysis_results = <<>>

\* The places of an atom in a text, and the j-th of a set of places.
Places(t, atom) == {i \in DOMAIN t : t[i] = atom}
NthPlace(S, j) == CHOOSE i \in S : Cardinality({x \in S : x < i}) = j - 1
NoIssuesLine == "(check) **No issues found in this category.**\n"
SeverityTags == {"HIGH", "MEDIUM", "LOW"}
IsSeverityTag(atom) == atom \in SeverityTags

\* Section j of a fallback text: from its j-th category header up to the
\* next one, or to the end of the text.
FallbackSection(t, j) ==
    LET heads == Places(t, "\n## ")
        from == NthPlace(heads, j)
        to == IF j < Cardinality(heads) THEN NthPlace(heads, j + 1) - 1 ELSE Len(t)
    IN  SubSeq(t, from, to)

\* C28: the text of _fallback_synthesis has one section per key of
\* analysis_results, in key order, headed by the key's title; the section of
\* a key with no issue is its header and the no-issues line and nothing else;
\* the section of a key with n >= 1 issues has no no-issues line and exactly n
\* issue entries, in issue order (by their severity tags); so the text for
\* the style key alone with no issue holds the no-issues line.
C28_FallbackSections ==
    (fb_calls # <<>> /\ fb_arg # <<>>) =>
        LET t == fb_calls[1]
        IN  /\ Cardinality(Places(t, "\n## ")) = Len(fb_arg)
            /\ \A j \in DOMAIN fb_arg :
                  LET section == FallbackSection(t, j)
                      issues == fb_arg[j].v.issues
                  IN  /\ section[2] = Title(fb_arg[j].k)
                      /\ IF issues = <<>>
                         THEN section =
                                <<"\n## ", Title(fb_arg[j].k), " Analysis\n", "\n",
                                  NoIssuesLine>>
                                \o (IF j < Len(fb_arg) THEN <<"\n">> ELSE <<>>)
                         ELSE /\ Places(section, NoIssuesLine) = {}
                              /\ Cardinality(Places(section, "\n### ")) = Len(issues)
                              /\ SelectSeq(section, IsSeverityTag) =
                                    [n \in DOMAIN issues |->
                                        IF issues[n].severity = "high" THEN "HIGH"
                                        ELSE IF issues[n].severity = "low" THEN "LOW"
                                        ELSE "MEDIUM"]
            /\ (Len(fb_arg) = 1 /\ fb_arg[1].k = "style"
                    /\ fb_arg[1].v.issues = <<>>) =>
                  Places(t, NoIssuesLine) # {}

\* C28 witness: the fallback text was built for two keys, the first with no
\* issue, the second with two issues.
C28_Witness ==
    /\ fb_calls # <<>>
    /\ Len(fb_arg) = 2
    /\ fb_arg[1].v.issues = <<>>
    /\ Len(fb_arg[2].v.issues) = 2

\* C28 witness of the style key alone with no issue.
C28_WitnessStyleOnly ==
    /\ fb_calls # <<>>
    /\ Len(fb_arg) = 1 /\ fb_arg[1].k = "style" /\ fb_arg[1].v.issues = <<>>

\* What the read of a file gave: a blank text, a text over the size limit, no
\* text at all (the read raised).
BlankRead(r) == r.ok /\ CodeLen(r.code) = r.code.ws
OversizeRead(r) == r.ok /\ ~BlankRead(r) /\ r.code.enc /\ CodeBytes(r.code) > max_size_bytes
RaisedRead(r) == ~r.ok

\* The step appends one entry for the file in hand, of the given status, and
\* leaves review_code uncalled.
RecordsWithoutReview(status) ==
    /\ Len(file_results') = Len(file_results) + 1
    /\ file_results'[Len(file_results')].path = fidx
    /\ file_results'[Len(file_results')].status = status
    /\ fidx' = fidx + 1
    /\ pc' = "idle" /\ args' = <<>> /\ llm_calls' = llm_calls

\* C29 as stated: the file whose read gave a blank text, a text over the size
\* limit or no text at all is recorded as skipped, with a reason, and
\* review_code is not called for it.
C29_SkippedWithoutReview ==
    [][(file_read # <<>>
            /\ (BlankRead(file_read) \/ OversizeRead(file_read)
                    \/ RaisedRead(file_read))) =>
          /\ RecordsWithoutReview("skipped")
          /\ file_results'[Len(file_results')].reason # <<>>]_vars

\* C29 as amended: the file whose text is blank (an empty or whitespace-only
\* file, a notebook that cannot be parsed or has no code cell) or over the
\* size limit is recorded as skipped, with a reason; the file whose open or
\* read raised is recorded with status error and the message; review_code
\* is called in neither case, and every file it is called for has a text
\* that is not blank and within the size limit.
C29_SkippedOrErrorWithoutReview ==
    [][/\ (file_read # <<>>
              /\ (BlankRead(file_read) \/ OversizeRead(file_read))) =>
             /\ RecordsWithoutReview("skipped")
             /\ file_results'[Len(file_results')].reason # <<>>
       /\ (file_read # <<>> /\ RaisedRead(file_read)) =>
             /\ RecordsWithoutReview("error")
             /\ file_results'[Len(file_results')].error = file_read.error
       /\ (caller = "repo" /\ args = <<>> /\ args' # <<>>) =>
             /\ args'.code = file_read.code
             /\ CodeLen(args'.code) > args'.code.ws
             /\ CodeBytes(args'.code) <= max_size_bytes
      ]_vars

\* C29 witness: of two files the first was a notebook that gave no code and
\* the second a file over the size limit; both are skipped and the call
\* returned with no file analyzed.
C29_Witness ==
    /\ repo_pc = "returned"
    /\ files = <<".ipynb", ".py">>
    /\ repo_ret.results[1].status = "skipped"
    /\ repo_ret.results[1].reason = <<"empty or unreadable file">>
    /\ repo_ret.results[2].status = "skipped"
    /\ repo_ret.results[2].reason # <<"empty or unreadable file">>
    /\ repo_ret.files_analyzed = 0

\* The text without its line breaks.
NotBreak(atom) == atom # "\n"
Unbroken(t) == SelectSeq(t, NotBreak)

\* The file section number j of a report: from its j-th file header up to
\* the next one, or to the end of the report.
FileSection(t, j) ==
    LET heads == Places(t, "## File: ")
        from == NthPlace(heads, j)
        to == IF j < Cardinality(heads) THEN NthPlace(heads, j + 1) - 1 ELSE Len(t)
    IN  SubSeq(t, from, to)

SubsectionHeads ==
    {"### Security", "### Maintainability", "### Style", "### Reviewer Notes"}
IsSubsectionHead(atom) == atom \in SubsectionHeads
SubsectionHead(analyzer) ==
    CASE analyzer = "security" -> "### Security"
      [] analyzer = "maintainability" -> "### Maintainability"
      [] analyzer = "style" -> "### Style"

\* The subsection of a file section under the given head: from the head up to
\* the next subsection head, or to the end of the section, line breaks left
\* out.
Subsection(section, head) ==
    LET heads == {i \in DOMAIN section : IsSubsectionHead(section[i])}
        from == CHOOSE i \in heads : section[i] = head
        later == {i \in heads : i > from}
        to == IF later = {} THEN Len(section)
              ELSE (CHOOSE i \in later : \A k \in later : i <= k) - 1
    IN  Unbroken(SubSeq(section, from, to))

\* The issues the report lists under an analyzer of a reviewed entry.
ListedIssues(item, analyzer) ==
    IF "analysis_results" \notin DOMAIN item.result THEN <<>>
    ELSE LET d == item.result.analysis_results
         IN  IF \E i \in DOMAIN d : d[i].k = analyzer
             THEN (d[CHOOSE i \in DOMAIN d : d[i].k = analyzer]).v.issues
             ELSE <<>>

\* The feedback of a reviewed entry between its first and its last character
\* that is not whitespace; <<>> when there is none.
Notes(item) ==
    IF "feedback" \notin DOMAIN item.result THEN <<>>
    ELSE LET fb == item.result.feedback
             solid == {i \in DOMAIN fb : ~IsSpace(fb[i])}
         IN  IF solid = {} THEN <<>>
             ELSE SubSeq(fb, CHOOSE i \in solid : \A k \in solid : i <= k,
                             CHOOSE i \in solid : \A k \in solid : k <= i)

\* C30: the report of a completed analysis (the texts of reasons, issues and
\* feedback taken as they are) has one file section per entry of results, in
\* the order of results, its header naming the entry's path and status; the
\* section of a skipped or error entry is the header and one blockquoted line
\* with the reason or the error, without subsection; the section of a
\* reviewed entry has the subsections Security, Maintainability, Style in
\* that order, each the no-issues bullet alone when its analyzer has no issue
\* and otherwise one bullet per issue in issue order, followed by Reviewer
\* Notes with the stripped feedback exactly when the feedback is not blank.
C30_ReportSections ==
    (report_out # <<>> /\ report_in.status = "success") =>
        LET t == report_out[1]
            results == report_in.results
        IN  /\ Cardinality(Places(t, "## File: ")) = Len(results)
            /\ \A j \in DOMAIN results :
                  LET item == results[j]
                      section == FileSection(t, j)
                      header == <<"## File: ", "BT", item.path, "BT", " -- ">>
                  IN  /\ SubSeq(section, 1, 5) = header
                      /\ IF item.status # "reviewed"
                         THEN /\ section[6] \in {"SKIPPED", "ERROR"}
                              /\ SelectSeq(section, IsSubsectionHead) = <<>>
                              /\ Cardinality(Places(section, "> ")) = 1
                              /\ LET body == SubSeq(Unbroken(section), 7,
                                                    Len(Unbroken(section)))
                                 IN  /\ body[1] = "> "
                                     /\ item.status = "skipped" =>
                                            Tail(body) = item.reason
                                     /\ (item.status = "error" /\ item.error # <<>>) =>
                                            Tail(body) = item.error
                                     /\ Len(body) > 1
                         ELSE /\ section[6] = "REVIEWED"
                              /\ Places(section, "> ") = {}
                              /\ SelectSeq(section, IsSubsectionHead) =
                                    <<"### Security", "### Maintainability", "### Style">>
                                    \o (IF Notes(item) # <<>>
                                        THEN <<"### Reviewer Notes">> ELSE <<>>)
                              /\ \A a \in AnalyzerSet :
                                    LET sub == Subsection(section, SubsectionHead(a))
                                        issues == ListedIssues(item, a)
                                    IN  IF issues = <<>>
                                        THEN sub = <<SubsectionHead(a),
                                                     "- **No issues found.**">>
                                        ELSE /\ Places(sub, "- **No issues found.**") = {}
                                             /\ Cardinality(Places(sub, "- **[")) = Len(issues)
                                             /\ SelectSeq(sub, IsSeverityTag) =
                                                   [n \in DOMAIN issues |->
                                                      IF issues[n].severity = "high" THEN "HIGH"
                                                      ELSE IF issues[n].severity = "low" THEN "LOW"
                                                      ELSE "MEDIUM"]
                              /\ Notes(item) # <<>> =>
                                    Subsection(section, "### Reviewer Notes") =
                                        <<"### Reviewer Notes">> \o Notes(item)

\* C30 witness: the report was built for a skipped entry followed by a
\* reviewed entry with a failed analyzer, a two-issue analyzer and feedback
\* that is not blank.
C30_Witness ==
    /\ report_out # <<>>
    /\ report_in.status = "success"
    /\ Len(report_in.results) = 2
    /\ report_in.results[1].status = "skipped"
    /\ report_in.results[2].status = "reviewed"
    /\ Len(ListedIssues(report_in.results[2], "style")) = 2
    /\ ListedIssues(report_in.results[2], "maintainability") # <<>>
    /\ Notes(report_in.results[2]) # <<>>

\* The segments of a URL path: what stands between its slashes, empty pieces
\* left out.
NotEmptySegment(seg) == seg # ""
Segments(url) == SelectSeq(url.path, NotEmptySegment)
GithubHost(url) == url.host \in {"github.com", "GitHub.com"}

\* What C31 says of the call apart from the subpath: rejection exactly for a
\* host other than github.com or fewer than two segments; owner, name and
\* branch of an accepted URL.
LocatorHeadParsed(url, out) ==
    LET seg == Segments(url)
    IN  IF ~GithubHost(url) \/ Len(seg) < 2
        THEN ~out.ok /\ out.error # <<>>
        ELSE /\ out.ok
             /\ out.owner = seg[1]
             /\ out.repo = (IF seg[2] = "r.git" THEN "r" ELSE seg[2])
             /\ out.branch = (IF Len(seg) >= 4 /\ seg[3] = "tree"
                              THEN Some(<<seg[4]>>) ELSE None)

\* C31 as stated: _parse_github_repo rejects a host other than github.com and
\* a path of fewer than two segments; of an accepted URL it returns segment 1
\* as owner, segment 2 without a trailing ".git" as name, segment 4 as branch
\* when segment 3 is "tree" (none otherwise), and as subpath the segments
\* after the fourth joined by "/" (none when there is no such segment).
C31_LocatorParsed ==
    locator_out # <<>> =>
        LET seg == Segments(locator_in)
            out == locator_out[1]
        IN  /\ LocatorHeadParsed(locator_in, out)
            /\ out.ok =>
                  out.subpath = (IF Len(seg) > 4
                                 THEN Some(JoinSlash(SubSeq(seg, 5, Len(seg))))
                                 ELSE None)

\* C31 as amended: the same, with the subpath being the segments after the
\* fourth joined by "/" only when segment 3 is "tree" and there is such a
\* segment, and none in every other case.
C31_LocatorParsedTreeOnly ==
    locator_out # <<>> =>
        LET seg == Segments(locator_in)
            out == locator_out[1]
        IN  /\ LocatorHeadParsed(locator_in, out)
            /\ out.ok =>
                  out.subpath = (IF Len(seg) > 4 /\ seg[3] = "tree"
                                 THEN Some(JoinSlash(SubSeq(seg, 5, Len(seg))))
                                 ELSE None)

\* C31 witness: a URL of five segments whose third segment is not "tree" was
\* parsed: no branch and no subpath.
C31_Witness ==
    /\ locator_out # <<>>
    /\ locator_in = [host |-> "GitHub.com", path |-> <<"o", "r.git", "b", "b", "o">>]
    /\ locator_out[1].ok
    /\ locator_out[1].repo = "r"
    /\ locator_out[1].branch = None
    /\ locator_out[1].subpath = None

\* C31 witness of the tree form: a branch and a subpath.
C31_WitnessTree ==
    /\ locator_out # <<>>
    /\ locator_in.path = <<"o", "", "r.git", "tree", "b", "o">>
    /\ locator_out[1].branch = Some(<<"b">>)
    /\ locator_out[1].subpath = Some(<<"o">>)

\* C32: throughout a review_code run, and at its end whether it returned a
\* success result or the result of an exception, the state's code and
\* file_extension are the values the caller passed; a success result carries
\* them unchanged too.
C32_InputImmutable ==
    InRun =>
        /\ state.code = args.code
        /\ state.file_extension = args.file_extension
        /\ (pc = "returned" /\ exc = <<>>) =>
              /\ ret.code = args.code
              /\ ret.file_extension = args.file_extension

\* C32 witness: a run on an upper-case extension, which ingest lower-cases for
\* its own use, went through analysis and synthesis and returned.
C32_Witness ==
    /\ InRun /\ pc = "returned" /\ exc = <<>>
    /\ args.file_extension = "PY"
    /\ state.language = <<"python">>
    /\ Ran("synthesize_feedback")
    /\ ret.file_extension = "PY"

\* C32 witness of an errored run: a stage raised and the state still holds the
\* caller's input.
C32_WitnessErrored ==
    /\ InRun /\ pc = "returned" /\ exc # <<>>
    /\ state.code = args.code

\* The step appends an entry to file_results for a file whose review_code run
\* returned: the entry is reviewed, keeps the run's result, and adds one to
\* the number of reviewed entries, whatever the result says.
ReturnedRunRecorded ==
    (caller = "repo" /\ pc = "returned" /\ pc' # "returned") =>
        /\ Len(file_results') = Len(file_results) + 1
        /\ LET entry == file_results'[Len(file_results')]
           IN  /\ entry.status = "reviewed"
               /\ entry.result.status = ret.status
               /\ entry.result.error = ret.error
        /\ Cardinality({i \in DOMAIN file_results' :
                           file_results'[i].status = "reviewed"}) =
           Cardinality({i \in DOMAIN file_results :
                           file_results[i].status = "reviewed"}) + 1

\* The step appends an entry of status error.
RecordsError ==
    /\ Len(file_results') = Len(file_results) + 1
    /\ file_results'[Len(file_results')].status = "error"

\* C33 as stated: a file whose review_code run returned, whatever the result
\* (of a failed validation or of an exception), is recorded as reviewed and
\* counted in files_analyzed; an entry of status error is recorded only when
\* reading the file raised (review_code itself lets no exception out).
C33_ErrorOnlyWhenReadRaises ==
    [][/\ ReturnedRunRecorded
       /\ RecordsError => (file_read # <<>> /\ RaisedRead(file_read))]_vars

\* C33 as amended: the same for a returned run; an entry of status error is
\* recorded only by a step in which no review_code run was in progress and an
\* exception was raised before the call: by the read of the file, or by
\* code.encode in the size check on a text that cannot be encoded.
C33_ErrorOnlyWhenHandlingRaises ==
    [][/\ ReturnedRunRecorded
       /\ RecordsError =>
             /\ pc = "idle" /\ pc' = "idle"
             /\ file_read # <<>> /\ HandlingRaises(file_read)
             /\ (~RaisedRead(file_read) => ~file_read.code.enc)]_vars

\* C33 witness: a file without extension, passed on as "txt", which ingest
\* does not support, was recorded as reviewed and counted; the file after it,
\* whose read raised, was recorded with status error and not counted.
C33_Witness ==
    /\ repo_pc = "returned"
    /\ files = <<"", ".py">>
    /\ repo_ret.results[1].status = "reviewed"
    /\ repo_ret.results[1].result.status = "success"
    /\ repo_ret.results[2].status = "error"
    /\ repo_ret.files_analyzed = 1

\* C33 witness of the size check: a notebook whose text cannot be encoded was
\* recorded with status error though its read did not raise.
C33_WitnessEncode ==
    /\ repo_pc = "returned"
    /\ files = <<".ipynb">>
    /\ repo_ret.results[1].status = "error"
    /\ repo_ret.results[1].error # <<"[Errno 13] Permission denied">>

\* The branch a call of analyze_repository asks for: the override if one is
\* given, else segment 4 of a URL whose segment 3 is "tree", else none.
RequestedBranch(req) ==
    LET seg == Segments(req.repo_url)
    IN  IF req.override_branch.some /\ req.override_branch.val # <<>>
        THEN req.override_branch
        ELSE IF Len(seg) >= 4 /\ seg[3] = "tree" THEN Some(<<seg[4]>>) ELSE None

\* C34: from the download on, the branch analyze_repository holds is the
\* requested one (the override if given, else the branch of the URL); no
\* download attempt, extraction, selection or file round changes it; and the
\* branch field of the returned analysis is that branch, or "(auto)" when
\* none was requested, whichever branch's download returned the archive.
C34_BranchFieldIsRequested ==
    [][/\ (repo_pc \in {"download", "downloaded", "extracted", "selected"}) =>
             request.branch = RequestedBranch(request)
       /\ (repo_pc \in {"download", "downloaded", "extracted", "selected", "loop"}
              /\ repo_pc' # "raised") =>
             request'.branch = request.branch
       /\ (repo_pc = "loop" /\ repo_pc' = "returned") =>
             /\ fetched # <<>>
             /\ repo_ret'.branch = (IF request.branch = None
                                    THEN <<"(auto)">> ELSE request.branch.val)
      ]_vars

\* C34 witness: the branch of the URL, dev, could not be downloaded, main
\* could, and the returned analysis names dev.
C34_Witness ==
    /\ repo_pc = "returned"
    /\ fetched = <<"main">>
    /\ request.branch = Some(<<"dev">>)
    /\ repo_ret.branch = <<"dev">>

\* C34 witness without a requested branch: the analysis names "(auto)".
C34_WitnessAuto ==
    /\ repo_pc = "returned"
    /\ fetched = <<"master">>
    /\ request.branch = None
    /\ repo_ret.branch = <<"(auto)">>

====
